---------------------------- MODULE Spec2Model ----------------------------
(***************************************************************************)
(* EZ-NoteTaker: the capture-to-insertion pipeline of the browser          *)
(* extension.  The module models                                           *)
(*   - the text formatter parseSelectionForInsert (lib/docsInsert.js),     *)
(*   - the credentialed executor withTokenRetry (background/auth.js),      *)
(*   - the message hub's PLUG_IT_IN_AT_SECTION handler,                    *)
(*   - the two revisions of plugHighlightIntoDoc and of handleSnipBounds,  *)
(*   - the context-menu entry point onContextMenuClick.                    *)
(* Strings are sequences of one-character strings, so that offsets into    *)
(* them can be computed and compared as the JavaScript code does.          *)
(***************************************************************************)
EXTENDS Integers, Sequences, FiniteSets, TLC

VARIABLES
    storedToken,   \* chrome.storage.local eznote_access_token, or NoToken
    selectedDoc,   \* chrome.storage.local eznote_selected_document_id, or NoDoc
    flow,          \* the handler in flight, "idle" when none
    pc,            \* the handler's position (its next suspension point)
    phase,         \* "first" or "retry": which invocation of the wrapped calls
    tok,           \* the token the handler passes to the remote calls
    docId,         \* the documentId the handler resolved
    req,           \* the handler's input
    err,           \* the message of the error in flight, <<>> when none
    log,           \* the events of the attempt, in order
    result,        \* how the handler ended: "none" while it runs
    snap,          \* stored state when withTokenRetry was entered
    researchFolder,\* chrome.storage.local eznote_research_snips_folder_id, or NoFolder
    pin,           \* input of the pure function under check (SpecParse, SpecSections)
    pout,          \* its output
    popup,         \* the state of the placement picker of ConnectedDocument.jsx
    overlay        \* the snip overlay in the page, the stored snip state and the
                   \* messages of the content script on their way to the service worker

vars == <<storedToken, selectedDoc, flow, pc, phase, tok, docId, req, err, log,
          result, snap, researchFolder, pin, pout, popup, overlay>>

flowVars == <<storedToken, selectedDoc, flow, pc, phase, tok, docId, req, err, log,
              result, snap, researchFolder, popup, overlay>>

-----------------------------------------------------------------------------
(* Bounds of the model.                                                    *)

\* longest selection text given to parseSelectionForInsert in SpecParse
MaxTextLen == 5

\* most lines of a selection text composed of sample lines in SpecParse
MaxLines == 3

\* most elements of a document body given to getDocumentSections in SpecSections
MaxElems == 3

\* largest end offset of an element of those document bodies
MaxEnd == 5

\* largest coordinate of the corner of a capture region given to cropImage in
\* SpecCrop (the smallest is -1)
MaxPos == 3

\* largest width and height of those capture regions
MaxSide == 2

\* largest width and height of the raster
MaxRaster == 3

\* the scale factors are the fractions num/den with num up to MaxNum and den
\* up to MaxDen
MaxNum == 2
MaxDen == 3

\* longest document body, in characters, given to insertHighlightToDoc in
\* SpecAppend
MaxDocLen == 3

\* largest insertion index given to insertHighlightAtPosition in SpecParse
MaxStart == 3

\* the list requests one call of fetchDocsList is followed through
MaxRequests == 3

\* the most files a list answer holds
MaxFiles == 2

-----------------------------------------------------------------------------
(* Text: parseSelectionForInsert, lib/docsInsert.js.                       *)

NL == "\n"

\* the characters the bounded texts are made of: a letter, a bullet glyph,
\* a digit, the dot of a numbered prefix, a space and the newline
Alphabet == {"a", "-", "1", ".", " ", NL}

\* \s of the two patterns
WhiteSpace == {" ", "\t", NL, "\r"}

\* the character class of BULLET_PATTERN: bullet, middle dot, small square,
\* white bullet (written by code point), hyphen and asterisk
BulletGlyphs == {"U+2022", "U+00B7", "U+25AA", "U+25E6", "-", "*"}

\* \d of NUMBERED_PATTERN
Digits == {"0", "1", "2", "3", "4", "5", "6", "7", "8", "9"}

\* [.)] of NUMBERED_PATTERN
NumberClosers == {".", ")"}

RECURSIVE SpanLen(_, _, _)
\* the number of consecutive characters of s, from position i on, that lie in C
\* (a greedy character-class repetition of a regular expression)
SpanLen(s, i, C) ==
    IF i > Len(s) THEN 0
    ELSE IF s[i] \in C THEN 1 + SpanLen(s, i + 1, C) ELSE 0

\* the length of the prefix of line that BULLET_PATTERN matches, 0 when none
BulletMatchLen(line) ==
    LET w == SpanLen(line, 1, WhiteSpace)
        g == w + 1
    IN  IF g <= Len(line) /\ line[g] \in BulletGlyphs
        THEN LET t == SpanLen(line, g + 1, WhiteSpace)
             IN  IF t >= 1 THEN g + t ELSE 0
        ELSE 0

\* the length of the prefix of line that NUMBERED_PATTERN matches, 0 when none
NumberedMatchLen(line) ==
    LET w == SpanLen(line, 1, WhiteSpace)
        d == SpanLen(line, w + 1, Digits)
        p == w + d + 1
    IN  IF d >= 1 /\ p <= Len(line) /\ line[p] \in NumberClosers
        THEN LET t == SpanLen(line, p + 1, WhiteSpace)
             IN  IF t >= 1 THEN p + t ELSE 0
        ELSE 0

\* String.prototype.trimStart
TrimStart(s) == SubSeq(s, SpanLen(s, 1, WhiteSpace) + 1, Len(s))

\* line.replace(PATTERN, '').trimStart(), n the length of the match
StripPrefix(line, n) == TrimStart(SubSeq(line, n + 1, Len(line)))

\* a content that is pushed as it is, empty or not
KeepEmpty(content) == content

\* content || ' '
OrSpace(content) == IF content = <<>> THEN <<" ">> ELSE content

RECURSIVE UntilNewline(_, _)
\* the number of characters of s from position i on that precede the next newline
UntilNewline(s, i) ==
    IF i > Len(s) THEN 0
    ELSE IF s[i] = NL THEN 0 ELSE 1 + UntilNewline(s, i + 1)

RECURSIVE SplitLines(_)
\* selectedText.split(/\n/)
SplitLines(s) ==
    LET k == UntilNewline(s, 1)
    IN  IF k = Len(s) THEN <<s>>
        ELSE <<SubSeq(s, 1, k)>> \o SplitLines(SubSeq(s, k + 2, Len(s)))

RECURSIVE JoinLines(_)
\* parts.join('\n')
JoinLines(parts) ==
    IF Len(parts) = 0 THEN <<>>
    ELSE IF Len(parts) = 1 THEN parts[1]
    ELSE parts[1] \o <<NL>> \o JoinLines(Tail(parts))

\* the classification of one line: "bullet", "numbered" or "plain"
LineKind(line) ==
    IF BulletMatchLen(line) > 0 THEN "bullet"
    ELSE IF NumberedMatchLen(line) > 0 THEN "numbered"
    ELSE "plain"

\* the content pushed to parts for one line
LineContent(line) ==
    IF LineKind(line) = "bullet" THEN OrSpace(StripPrefix(line, BulletMatchLen(line)))
    ELSE IF LineKind(line) = "numbered"
         THEN OrSpace(StripPrefix(line, NumberedMatchLen(line)))
    ELSE OrSpace(line)

\* a lineLen that leaves out the newline after the line
LineLenNoNewline(line) ==
    IF LineKind(line) = "plain" THEN Len(line)
    ELSE Len(LineContent(line))

\* lineLen of the loop body: the amount the running offset advances by
LineLen(line) ==
    IF LineKind(line) = "plain" THEN Len(line) + 1
    ELSE Len(LineContent(line)) + 1

\* one iteration of the for loop over the lines
ParseLine(acc, line) ==
    LET content == LineContent(line)
        range   == [start |-> acc.offset, end |-> acc.offset + Len(content) + 1]
    IN  [parts          |-> Append(acc.parts, content),
         bulletRanges   |-> IF LineKind(line) = "bullet"
                            THEN Append(acc.bulletRanges, range)
                            ELSE acc.bulletRanges,
         numberedRanges |-> IF LineKind(line) = "numbered"
                            THEN Append(acc.numberedRanges, range)
                            ELSE acc.numberedRanges,
         offset         |-> acc.offset + LineLen(line)]

RECURSIVE ParseLines(_, _)
ParseLines(acc, lines) ==
    IF lines = <<>> THEN acc
    ELSE ParseLines(ParseLine(acc, Head(lines)), Tail(lines))

\* parseSelectionForInsert(selectedText, sourceLabel, title, timeStr)
ParseSelectionForInsert(selectedText, sourceLabel, title, timeStr) ==
    LET acc == ParseLines([parts |-> <<>>, bulletRanges |-> <<>>,
                           numberedRanges |-> <<>>, offset |-> 1],
                          SplitLines(selectedText))
        quoteText == JoinLines(acc.parts)
    IN  [textToInsert   |-> <<NL>> \o quoteText \o sourceLabel \o title \o timeStr,
         bulletRanges   |-> acc.bulletRanges,
         numberedRanges |-> acc.numberedRanges,
         quoteLen       |-> Len(quoteText)]

\* '\nSource: '
SourceLabel == <<NL, "S", "o", "u", "r", "c", "e", ":", " ">>

\* ` ${timestamp}` for a fixed timestamp
TimeStr == <<" ", "t", "s">>

\* page titles of the bounded inputs
Titles == {<<"T">>, <<"D", "o", "c">>}

\* every text of at most MaxTextLen characters over Alphabet
Texts == UNION {[1..n -> Alphabet] : n \in 0..MaxTextLen}

\* lines the composed texts are made of: empty, plain, bullet, numbered, a
\* bullet and a numbered prefix with nothing after them, a blank line, a digit
\* and dot with no space after them
SampleLines ==
    {<<>>, <<"a">>, <<" ">>, <<"-", " ", "a">>, <<"1", ".", " ", "a">>,
     <<"-", " ">>, <<"1", ".", " ">>, <<"1", ".", "a">>}

\* every text of at most MaxLines sample lines
ComposedTexts ==
    {JoinLines(ls) : ls \in UNION {[1..n -> SampleLines] : n \in 1..MaxLines}}

NoOutput == [textToInsert |-> <<>>, bulletRanges |-> <<>>, numberedRanges |-> <<>>,
             quoteLen |-> -1]

-----------------------------------------------------------------------------
(* Stored state, tokens, documents, error messages.                        *)

NoToken == "none"
NoDoc == "none"
NoFolder == "none"

\* OAuth access tokens: two, so that a switch of credential is visible
Tokens == {"t1", "t2"}

\* Google Doc ids
Docs == {"d1", "d2"}

\* the selections the handlers are run on: a plain line, a bullet line,
\* a plain line followed by a numbered line
FlowTexts == {<<"a">>, <<"-", " ", "a">>, <<"a", NL, "1", ".", " ", "a">>}

\* An error message is a sequence of words; msg.includes(pat) is the search
\* of the words of pat, in a row, in msg.
Includes(msg, pat) ==
    \E i \in 1..Len(msg) : i + Len(pat) - 1 <= Len(msg)
                           /\ SubSeq(msg, i, i + Len(pat) - 1) = pat

\* new Error('SESSION_EXPIRED'): what every remote call throws on status 401
MsgSessionExpiredSignal == <<"SESSION_EXPIRED">>
\* new Error('Session expired'), thrown by withTokenRetry
MsgSessionExpired == <<"Session", "expired">>
\* new Error('Sign in required'), thrown by withTokenRetry
MsgSignInRequired == <<"Sign", "in", "required">>
\* a non-401 failure whose message is the service's, e.g. status 500
MsgService == <<"Internal", "error", "encountered">>
\* a non-401 failure (status 400) whose service message holds the digits 401:
\* an insertion index of 401 beyond the end of the document
MsgIndex401 == <<"Index", "401", "must", "be", "less", "than", "the", "end", "index">>
\* the error of the PLUG_IT_IN_AT_SECTION guard
MsgMissing == <<"Missing", "selectionData", "or", "insertIndex">>
\* the error of a request with no selected document
MsgNoDocument == <<"No", "document", "selected">>
\* a rejected chrome.storage or chrome.scripting promise
MsgChrome == <<"Extension", "context", "invalidated">>

\* what a remote call can answer: success, status 401, another failure status
\* (or a network error), another failure status with 401 in its message
Outcomes == {"ok", "401", "err", "err401"}

\* the message of the Error a remote call throws for a failing outcome
ErrMsg(r) ==
    IF r = "401" THEN MsgSessionExpiredSignal
    ELSE IF r = "err401" THEN MsgIndex401
    ELSE MsgService

\* an isAuthError that recognises no error
IsAuthErrorNever(msg) == FALSE

\* isAuthError of background/auth.js
IsAuthError(msg) ==
    \/ msg = MsgSessionExpiredSignal
    \/ Includes(msg, <<"401">>)
    \/ Includes(msg, <<"UNAUTHENTICATED">>)
    \/ Includes(msg, <<"invalid", "authentication">>)
    \/ Includes(msg, <<"Invalid", "Credentials">>)
    \/ Includes(msg, <<"Session", "expired">>)

\* one event of an attempt: a remote call ("call"), a credential operation
\* ("cred"), a read of the selected document ("store"), a notification
\* ("notify"), a tab operation ("tab"), an invocation of the function wrapped
\* by withTokenRetry ("fn")
Ev(k, op, arg, res) == [k |-> k, op |-> op, arg |-> arg, res |-> res]

\* the positions of log l that hold an event of kind k
EventsOf(l, k) == {i \in 1..Len(l) : l[i].k = k}

\* the positions of log l that hold a remote call op
CallsOf(l, op) == {i \in 1..Len(l) : l[i].k = "call" /\ l[i].op = op}

\* the number of notifications shown during the attempt
NoteCount(l) == Cardinality(EventsOf(l, "notify"))

\* how a handler ended: status is "responded" (a message handler answered),
\* "resolved" or "rejected" (the handler's promise settled); inner is the
\* settlement of plugHighlightIntoDoc's promise when onContextMenuClick awaits it
Result(st, ok, e) == [status |-> st, ok |-> ok, error |-> e, inner |-> "none"]

NoResult == Result("none", FALSE, <<>>)
NoSnap == [token |-> NoToken, doc |-> NoDoc, folder |-> NoFolder, notes |-> 0]
NoReq == [kind |-> "none", wellFormed |-> TRUE, text |-> <<>>, via |-> "direct",
          sourceTab |-> FALSE]

\* the picker of ConnectedDocument.jsx before 'Plug it in' is clicked: plugStep
\* null, no selection, no sections.  doc is the document the held outline
\* was fetched from; edited records that a text insertion reached that
\* document after the outline was fetched.
NoPopup == [step |-> "none", doc |-> NoDoc, selection |-> <<>>, edited |-> FALSE]

\* no overlay in the page: dom is the overlay element, esc the keydown
\* listener of createOverlay, active the stored eznote_snip_overlay_active,
\* insertIndex the stored snip insert index, msgs the messages sent by the
\* content script and not yet handled, in order.  cancelled records that
\* Escape was pressed while the overlay was shown, late that a SNIP_CANCEL
\* was handled while handleSnipBounds was running.  isDrawing, currentW and
\* currentH are the variables of the drag; discarded records that the last
\* mouseup dropped its rectangle.
NoOverlay == [dom |-> FALSE, esc |-> FALSE, active |-> FALSE, insertIndex |-> FALSE,
              msgs |-> <<>>, cancelled |-> FALSE, late |-> FALSE,
              isDrawing |-> FALSE, currentW |-> 0, currentH |-> 0,
              discarded |-> FALSE]

FlowInit ==
    /\ popup = NoPopup
    /\ overlay = NoOverlay
    /\ storedToken = NoToken
    /\ selectedDoc = NoDoc
    /\ flow = "idle"
    /\ pc = "idle"
    /\ phase = "first"
    /\ tok = NoToken
    /\ docId = NoDoc
    /\ req = NoReq
    /\ err = <<>>
    /\ log = <<>>
    /\ result = NoResult
    /\ snap = NoSnap
    /\ researchFolder = NoFolder

\* no handler is in flight
Quiet == pc \in {"idle", "done"}

\* a handler may start: one attempt is in flight at a time
CanStart == Quiet

\* the attempt-local state after a handler ended and before the next starts
ResetLocals ==
    /\ flow' = "idle"
    /\ pc' = "idle"
    /\ phase' = "first"
    /\ tok' = NoToken
    /\ docId' = NoDoc
    /\ req' = NoReq
    /\ err' = <<>>
    /\ log' = <<>>
    /\ result' = NoResult
    /\ snap' = NoSnap

\* a check of the selected document that never finds it missing
DocumentNeverMissing(d) == FALSE

\* !documentId: no document is selected
DocumentMissing(d) == d = NoDoc

\* the ranges parseSelectionForInsert records for the request's selection
ReqParse == ParseSelectionForInsert(req.text, SourceLabel, <<"T">>, TimeStr)

\* a condition that sends the list-formatting call for every selection
AlwaysListRanges == TRUE

\* bulletRanges.length > 0 or numberedRanges.length > 0: extraRequests is not empty
HasListRanges == Len(ReqParse.bulletRanges) + Len(ReqParse.numberedRanges) > 0

-----------------------------------------------------------------------------
(* background/messageHub.js: the handlers that change the stored state.    *)

\* a clearAuthState that removes the token and keeps the selected document
ClearAuthState_KeepDocument ==
    /\ storedToken' = NoToken
    /\ selectedDoc' = selectedDoc

\* clearAuthState of background/auth.js: token and selected document removed
ClearAuthState ==
    /\ storedToken' = NoToken
    /\ selectedDoc' = NoDoc

\* AUTH_CONNECT: clearAuthState, then the interactive sign-in stores the token
\* of the account the user picks, or fails and stores nothing
AuthConnect ==
    /\ Quiet
    /\ \E t \in Tokens \cup {NoToken} : storedToken' = t
    /\ selectedDoc' = NoDoc
    /\ ResetLocals
    /\ UNCHANGED <<researchFolder, pin, pout, popup, overlay>>

\* AUTH_DISCONNECT
AuthDisconnect ==
    /\ Quiet
    /\ ClearAuthState
    /\ ResetLocals
    /\ UNCHANGED <<researchFolder, pin, pout, popup, overlay>>

\* DOCS_SET_SELECTED with a documentId
DocsSetSelected ==
    /\ Quiet
    /\ \E d \in Docs : selectedDoc' = d
    /\ ResetLocals
    /\ UNCHANGED <<storedToken, researchFolder, pin, pout, popup, overlay>>

-----------------------------------------------------------------------------
(* background/auth.js: withTokenRetry.                                     *)

\* the handlers that run their remote calls under withTokenRetry
WtrFlows == {"hub", "plugWtr", "snipWtr", "sections", "create"}

\* the first suspension point of the function each handler wraps
FnEntry(f) ==
    IF f = "hub" THEN "ap_insert"
    ELSE IF f = "snipWtr" THEN "dr_folder"
    ELSE IF f = "sections" THEN "gs_fetch"
    ELSE IF f = "create" THEN "cd_create"
    ELSE "ih_insert"

\* a remote call issued with the handler's token answers r
RemoteCall(op, r, okPc, failPc) ==
    /\ log' = Append(log, Ev("call", op, tok, r))
    /\ IF r = "ok"
       THEN pc' = okPc /\ err' = err
       ELSE pc' = failPc /\ err' = ErrMsg(r)

\* where a failed call of the wrapped function leaves the handler
FnThrown == IF flow = "snipRetry" /\ pc \in {"dr_upload", "dr_perm"}
            THEN "up_thrown" ELSE "fn_thrown"

\* withTokenRetry, lines 150-157: the stored token is read; with none the
\* call throws 'Sign in required', otherwise fn(token) is invoked
WithTokenRetry_GetToken ==
    /\ pc = "wtr_enter"
    /\ snap' = [token |-> storedToken, doc |-> selectedDoc, folder |-> researchFolder,
                 notes |-> NoteCount(log)]
    /\ IF storedToken = NoToken
       THEN /\ log' = Append(log, Ev("cred", "getStoredAccessToken", NoToken, ""))
            /\ err' = MsgSignInRequired
            /\ pc' = "wtr_thrown"
            /\ tok' = tok
       ELSE /\ log' = log \o <<Ev("cred", "getStoredAccessToken", storedToken, ""),
                               Ev("fn", "invoke", storedToken, "")>>
            /\ err' = err
            /\ tok' = storedToken
            /\ pc' = FnEntry(flow)
    /\ UNCHANGED <<storedToken, selectedDoc, flow, phase, docId, req, result,
                   researchFolder, pin, pout, popup, overlay>>

\* withTokenRetry, line 157: fn returned, so does withTokenRetry
WithTokenRetry_Return ==
    /\ pc = "fn_returned"
    /\ flow \in WtrFlows
    /\ pc' = "wtr_returned"
    /\ UNCHANGED <<storedToken, selectedDoc, flow, phase, tok, docId, req, err, log,
                   result, snap, researchFolder, pin, pout, popup, overlay>>

\* a catch that, on an authentication failure, asks for a fresh silent token
\* and invokes fn a second time with it
WithTokenRetry_CatchAndRetry ==
    /\ pc = "fn_thrown"
    /\ flow \in WtrFlows
    /\ IF ~IsAuthError(err)
       THEN /\ pc' = "wtr_thrown"
            /\ UNCHANGED <<storedToken, selectedDoc, err, log, tok, phase>>
       ELSE IF phase = "retry"
       THEN /\ ClearAuthState
            /\ log' = log \o <<Ev("cred", "clearAuthState", tok, ""),
                               Ev("notify", "Session expired", "", "")>>
            /\ pc' = "wtr_thrown"
            /\ UNCHANGED <<err, tok, phase>>
       ELSE \E fresh \in Tokens \cup {NoToken} :
              LET asked == log \o <<Ev("cred", "removeCachedAuthToken", tok, ""),
                                    Ev("cred", "getAuthTokenSilent", fresh, "")>>
              IN  IF fresh = NoToken
                  THEN /\ ClearAuthState
                       /\ log' = asked \o <<Ev("cred", "clearAuthState", tok, ""),
                                            Ev("notify", "Session expired", "", "")>>
                       /\ err' = MsgSessionExpired
                       /\ pc' = "wtr_thrown"
                       /\ UNCHANGED <<tok, phase>>
                  ELSE /\ storedToken' = fresh
                       /\ selectedDoc' = selectedDoc
                       /\ log' = asked \o <<Ev("cred", "storeAccessToken", fresh, ""),
                                            Ev("fn", "invoke", fresh, "")>>
                       /\ tok' = fresh
                       /\ phase' = "retry"
                       /\ pc' = FnEntry(flow)
                       /\ err' = err
    /\ UNCHANGED <<flow, docId, req, result, snap, researchFolder, pin, pout, popup, overlay>>

\* withTokenRetry, lines 158-164: fn threw.  An error isAuthError does not
\* recognise is rethrown; otherwise the auth state is cleared, the user is
\* notified and 'Session expired' is thrown.
WithTokenRetry_Catch ==
    /\ pc = "fn_thrown"
    /\ flow \in WtrFlows
    /\ IF ~IsAuthError(err)
       THEN UNCHANGED <<storedToken, selectedDoc, err, log>>
       ELSE /\ ClearAuthState
            /\ log' = log \o <<Ev("cred", "clearAuthState", tok, ""),
                               Ev("notify", "Session expired", "", "")>>
            /\ err' = MsgSessionExpired
    /\ pc' = "wtr_thrown"
    /\ UNCHANGED <<flow, phase, tok, docId, req, result, snap, researchFolder, pin, pout, popup, overlay>>

-----------------------------------------------------------------------------
(* lib/docsInsert.js: insertHighlightAtPosition.                           *)

\* the insertText batchUpdate at the chosen index
InsertHighlightAtPosition_Insert ==
    /\ pc = "ap_insert"
    /\ \E r \in Outcomes :
          RemoteCall("insertText", r, IF HasListRanges THEN "ap_list" ELSE "ap_link",
                     "fn_thrown")
    /\ UNCHANGED <<storedToken, selectedDoc, flow, phase, tok, docId, req, result,
                   snap, researchFolder, pin, pout, popup, overlay>>

\* the createParagraphBullets batchUpdate, issued when extraRequests is not empty
InsertHighlightAtPosition_List ==
    /\ pc = "ap_list"
    /\ \E r \in Outcomes : RemoteCall("listFormat", r, "ap_link", "fn_thrown")
    /\ UNCHANGED <<storedToken, selectedDoc, flow, phase, tok, docId, req, result,
                   snap, researchFolder, pin, pout, popup, overlay>>

\* the updateTextStyle batchUpdate that links the title
InsertHighlightAtPosition_Link ==
    /\ pc = "ap_link"
    /\ \E r \in Outcomes : RemoteCall("linkStyle", r, "fn_returned", "fn_thrown")
    /\ UNCHANGED <<storedToken, selectedDoc, flow, phase, tok, docId, req, result,
                   snap, researchFolder, pin, pout, popup, overlay>>

-----------------------------------------------------------------------------
(* lib/docsInsert.js: insertHighlightToDoc (append at the end).            *)

\* the insertText batchUpdate at endOfSegmentLocation
InsertHighlightToDoc_Insert ==
    /\ pc = "ih_insert"
    /\ \E r \in Outcomes : RemoteCall("insertText", r, "ih_end", "fn_thrown")
    /\ UNCHANGED <<storedToken, selectedDoc, flow, phase, tok, docId, req, result,
                   snap, researchFolder, pin, pout, popup, overlay>>

\* getDocumentEndIndex after the insertion
InsertHighlightToDoc_EndIndex ==
    /\ pc = "ih_end"
    /\ \E r \in Outcomes :
          RemoteCall("getEndIndex", r, IF HasListRanges THEN "ih_list" ELSE "ih_link",
                     "fn_thrown")
    /\ UNCHANGED <<storedToken, selectedDoc, flow, phase, tok, docId, req, result,
                   snap, researchFolder, pin, pout, popup, overlay>>

\* the createParagraphBullets batchUpdate, issued when extraRequests is not empty
InsertHighlightToDoc_List ==
    /\ pc = "ih_list"
    /\ \E r \in Outcomes : RemoteCall("listFormat", r, "ih_link", "fn_thrown")
    /\ UNCHANGED <<storedToken, selectedDoc, flow, phase, tok, docId, req, result,
                   snap, researchFolder, pin, pout, popup, overlay>>

\* the updateTextStyle batchUpdate that links the title
InsertHighlightToDoc_Link ==
    /\ pc = "ih_link"
    /\ \E r \in Outcomes : RemoteCall("linkStyle", r, "fn_returned", "fn_thrown")
    /\ UNCHANGED <<storedToken, selectedDoc, flow, phase, tok, docId, req, result,
                   snap, researchFolder, pin, pout, popup, overlay>>

-----------------------------------------------------------------------------
(* background/plugHighlightIntoDoc.js: plugHighlightIntoDoc with its own   *)
(* retry on an authentication failure.                                     *)

\* isAuthError of background/plugHighlightIntoDoc.js
IsAuthErrorPlug(msg) ==
    \/ msg = MsgSessionExpiredSignal
    \/ Includes(msg, <<"401">>)
    \/ Includes(msg, <<"UNAUTHENTICATED">>)
    \/ Includes(msg, <<"invalid", "authentication">>)
    \/ Includes(msg, <<"Unable", "to", "download", "all", "specified", "images">>)

\* a notification with the given title
Note(title) == Ev("notify", title, "", "")

\* no outer try/catch: the exception leaves plugHighlightIntoDoc
PlugHighlightIntoDoc_NoOuterCatch(l) == [log |-> l, inner |-> "rejected"]

\* the outer try/catch, lines 94-97: an exception thrown inside the try is
\* turned into a notification and the promise resolves
PlugHighlightIntoDoc_OuterCatch(l) ==
    [log |-> Append(l, Note("Could not plug in")), inner |-> "resolved"]

\* plugHighlightIntoDoc's promise settles: the caller is onContextMenuClick,
\* which awaits it, or the promise is the handler's own
PlugSettle(l, inner, ok) ==
    /\ log' = l
    /\ result' = [Result(IF req.via = "ctx" THEN "none" ELSE inner, ok, <<>>)
                     EXCEPT !.inner = inner]
    /\ pc' = IF req.via = "ctx" THEN "ctx_await" ELSE "done"

\* plugHighlightIntoDoc is called by another entry point than the context menu
PlugHighlightIntoDoc_Call ==
    /\ CanStart
    /\ flow' = "plugRetry"
    /\ pc' = "pl_start"
    /\ \E t \in FlowTexts : req' = [NoReq EXCEPT !.kind = "plug", !.text = t]
    /\ phase' = "first"
    /\ tok' = NoToken
    /\ docId' = NoDoc
    /\ err' = <<>>
    /\ log' = <<>>
    /\ result' = NoResult
    /\ snap' = NoSnap
    /\ UNCHANGED <<storedToken, selectedDoc, researchFolder, pin, pout, popup, overlay>>

\* lines 52-70 and getDocAndToken: the selected document and a token (Chrome's
\* silent one, else the stored one) are looked up; a rejected storage read is
\* caught by the outer catch
PlugHighlightIntoDoc_GetDocAndToken ==
    /\ pc = "pl_start"
    /\ \E silent \in Tokens \cup {NoToken}, storageOk \in BOOLEAN :
          LET access == IF silent # NoToken THEN silent ELSE storedToken
              lookup == <<Ev("store", "getSelectedDocumentId", selectedDoc, "")>>
                        \o IF selectedDoc = NoDoc THEN <<>>
                           ELSE <<Ev("cred", "getAuthTokenSilent", silent, "")>>
              caught == PlugHighlightIntoDoc_OuterCatch(log)
          IN  IF ~storageOk
              THEN /\ PlugSettle(caught.log, caught.inner, FALSE)
                   /\ UNCHANGED <<tok, docId>>
              ELSE IF selectedDoc = NoDoc \/ access = NoToken
              THEN /\ PlugSettle(
                         Append(log \o lookup,
                                IF storedToken = NoToken THEN Note("Sign in required")
                                ELSE IF selectedDoc = NoDoc
                                     THEN Note("No document selected")
                                     ELSE Note("Connection problem")),
                         "resolved", FALSE)
                   /\ UNCHANGED <<tok, docId>>
              ELSE /\ log' = log \o lookup
                   /\ tok' = access
                   /\ docId' = selectedDoc
                   /\ pc' = "ih_insert"
                   /\ result' = result
    /\ UNCHANGED <<storedToken, selectedDoc, flow, phase, req, err, snap, researchFolder,
                   pin, pout, popup, overlay>>

\* lines 72-73 and 81-83: insertHighlightToDoc returned
PlugHighlightIntoDoc_Done ==
    /\ pc = "fn_returned"
    /\ flow = "plugRetry"
    /\ PlugSettle(Append(log, Note("Plugged in")), "resolved", TRUE)
    /\ UNCHANGED <<storedToken, selectedDoc, flow, phase, tok, docId, req, err, snap,
                   researchFolder, pin, pout, popup, overlay>>

\* lines 74-93: insertHighlightToDoc threw.  The first time, on an error
\* isAuthError recognises, the cached token is removed, a fresh silent token
\* is asked for and, when there is one, stored and the whole of
\* insertHighlightToDoc is run again with it.
PlugHighlightIntoDoc_Catch ==
    /\ pc = "fn_thrown"
    /\ flow = "plugRetry"
    /\ IF phase = "first" /\ IsAuthErrorPlug(err)
       THEN \E fresh \in Tokens \cup {NoToken}, storageOk \in BOOLEAN :
              LET asked == log \o <<Ev("cred", "removeCachedAuthToken", tok, ""),
                                    Ev("cred", "getAuthTokenSilent", fresh, "")>>
                  caught == PlugHighlightIntoDoc_OuterCatch(asked)
              IN  IF fresh = NoToken
                  THEN /\ PlugSettle(Append(asked, Note("Session expired")),
                                     "resolved", FALSE)
                       /\ UNCHANGED <<storedToken, tok, phase>>
                  ELSE IF ~storageOk
                  THEN /\ PlugSettle(caught.log, caught.inner, FALSE)
                       /\ UNCHANGED <<storedToken, tok, phase>>
                  ELSE /\ log' = Append(asked, Ev("cred", "storeAccessToken", fresh, ""))
                       /\ storedToken' = fresh
                       /\ tok' = fresh
                       /\ phase' = "retry"
                       /\ pc' = "ih_insert"
                       /\ result' = result
       ELSE /\ PlugSettle(Append(log, Note("Could not plug in")), "resolved", FALSE)
            /\ UNCHANGED <<storedToken, tok, phase>>
    /\ UNCHANGED <<selectedDoc, flow, docId, req, err, snap, researchFolder, pin, pout, popup, overlay>>

-----------------------------------------------------------------------------
(* background/contextMenu.js: onContextMenuClick.                          *)

\* lines 38-47: the selection is captured from the tab; a failure of the
\* capture is caught, an empty selection is reported, otherwise
\* plugHighlightIntoDoc is awaited
OnContextMenuClick_Start ==
    /\ CanStart
    /\ \E sel \in {"text", "empty", "throw"}, t \in FlowTexts :
          /\ req' = [NoReq EXCEPT !.kind = "contextMenu", !.text = t, !.via = "ctx"]
          /\ IF sel = "text"
             THEN /\ flow' = "plugRetry"
                  /\ pc' = "pl_start"
                  /\ log' = <<>>
                  /\ result' = NoResult
             ELSE /\ flow' = "ctx"
                  /\ pc' = "done"
                  /\ log' = <<Note(IF sel = "empty" THEN "No text selected"
                                   ELSE "Could not plug in")>>
                  /\ result' = Result("resolved", FALSE, <<>>)
    /\ phase' = "first"
    /\ tok' = NoToken
    /\ docId' = NoDoc
    /\ err' = <<>>
    /\ snap' = NoSnap
    /\ UNCHANGED <<storedToken, selectedDoc, researchFolder, pin, pout, popup, overlay>>

\* lines 47-54: the awaited plugHighlightIntoDoc settled; a rejection is
\* caught and shown, and onContextMenuClick resolves
OnContextMenuClick_Settle ==
    /\ pc = "ctx_await"
    /\ log' = IF result.inner = "rejected"
              THEN Append(log, Note("Could not plug in")) ELSE log
    /\ result' = [result EXCEPT !.status = "resolved"]
    /\ pc' = "done"
    /\ UNCHANGED <<storedToken, selectedDoc, flow, phase, tok, docId, req, err, snap,
                   researchFolder, pin, pout, popup, overlay>>

-----------------------------------------------------------------------------
(* plugHighlightIntoDoc, the revision that runs under withTokenRetry       *)
(* (src/unnamed/part_009).                                                 *)

\* lines 60-75: without a selected document the user is notified; with a
\* source tab the paste at the cursor of the open document is tried first
PlugHighlightIntoDocWtr_Start ==
    /\ CanStart
    /\ flow' = "plugWtr"
    /\ \E t \in FlowTexts, paste \in {"noTab", "pasted", "notPasted"} :
          /\ req' = [NoReq EXCEPT !.kind = "plug", !.text = t,
                                  !.sourceTab = (paste # "noTab")]
          /\ LET read == <<Ev("store", "getSelectedDocumentId", selectedDoc, "")>>
             IN  IF DocumentMissing(selectedDoc)
                 THEN /\ log' = Append(read, Note("No document selected"))
                      /\ result' = Result("resolved", FALSE, <<>>)
                      /\ pc' = "done"
                      /\ docId' = NoDoc
                 ELSE IF paste = "pasted"
                 THEN /\ log' = read \o <<Ev("tab", "pasteAtCursor", "", "ok"),
                                          Note("Plugged in")>>
                      /\ result' = Result("resolved", TRUE, <<>>)
                      /\ pc' = "done"
                      /\ docId' = selectedDoc
                 ELSE /\ log' = read \o (IF paste = "notPasted"
                                         THEN <<Ev("tab", "pasteAtCursor", "", "no")>>
                                         ELSE <<>>)
                      /\ result' = NoResult
                      /\ pc' = "wtr_enter"
                      /\ docId' = selectedDoc
    /\ phase' = "first"
    /\ tok' = NoToken
    /\ err' = <<>>
    /\ snap' = NoSnap
    /\ UNCHANGED <<storedToken, selectedDoc, researchFolder, pin, pout, popup, overlay>>

\* lines 76-86: withTokenRetry returned or threw; one more notification
PlugHighlightIntoDocWtr_Settle ==
    /\ flow = "plugWtr"
    /\ pc \in {"wtr_returned", "wtr_thrown"}
    /\ log' = Append(log,
                     IF pc = "wtr_returned" THEN Note("Plugged in")
                     ELSE IF Includes(err, MsgSignInRequired) THEN Note("Sign in required")
                     ELSE Note("Could not plug in"))
    /\ result' = Result("resolved", pc = "wtr_returned", IF pc = "wtr_returned" THEN <<>> ELSE err)
    /\ pc' = "done"
    /\ UNCHANGED <<storedToken, selectedDoc, flow, phase, tok, docId, req, err, snap,
                   researchFolder, pin, pout, popup, overlay>>

-----------------------------------------------------------------------------
(* background/googleDrive.js (and lib/driveUpload.js, which has no folder):*)
(* the staging of the cropped image.                                       *)

\* where the handler continues once the image is staged
AfterUpload == IF flow = "snipRetry" THEN "up_returned" ELSE "im_insert"

\* an ensureResearchSnipsFolder that does not look at the stored folder id
EnsureResearchSnipsFolder_AlwaysCreate ==
    /\ pc = "dr_folder"
    /\ \E r \in Outcomes :
          /\ RemoteCall("createFolder", r, "dr_upload", "fn_thrown")
          /\ researchFolder' = IF r = "ok" THEN "f1" ELSE researchFolder
    /\ UNCHANGED <<storedToken, selectedDoc, flow, phase, tok, docId, req, result,
                   snap, pin, pout, popup, overlay>>

\* ensureResearchSnipsFolder: the stored folder id is returned, or the folder
\* is created and its id stored
EnsureResearchSnipsFolder ==
    /\ pc = "dr_folder"
    /\ IF researchFolder # NoFolder
       THEN /\ pc' = "dr_upload"
            /\ UNCHANGED <<log, err, researchFolder>>
       ELSE \E r \in Outcomes :
              /\ RemoteCall("createFolder", r, "dr_upload", "fn_thrown")
              /\ researchFolder' = IF r = "ok" THEN "f1" ELSE researchFolder
    /\ UNCHANGED <<storedToken, selectedDoc, flow, phase, tok, docId, req, result,
                   snap, pin, pout, popup, overlay>>

\* uploadImageToDrive: the multipart upload
UploadImageToDrive_Upload ==
    /\ pc = "dr_upload"
    /\ \E r \in Outcomes : RemoteCall("upload", r, "dr_perm", FnThrown)
    /\ UNCHANGED <<storedToken, selectedDoc, flow, phase, tok, docId, req, result,
                   snap, researchFolder, pin, pout, popup, overlay>>

\* uploadImageToDrive: setPublicViewPermission; the upload's answer held a
\* webContentLink or it did not
UploadImageToDrive_Permission ==
    /\ pc = "dr_perm"
    /\ \E r \in Outcomes, hasLink \in BOOLEAN :
          RemoteCall("permission", r, IF hasLink THEN AfterUpload ELSE "dr_url", FnThrown)
    /\ UNCHANGED <<storedToken, selectedDoc, flow, phase, tok, docId, req, result,
                   snap, researchFolder, pin, pout, popup, overlay>>

\* uploadImageToDrive: the lookup of webContentLink; any answer but success
\* is ignored and the canonical URL is used
UploadImageToDrive_GetUrl ==
    /\ pc = "dr_url"
    /\ \E r \in Outcomes : log' = Append(log, Ev("call", "getDirectUrl", tok, r))
    /\ pc' = AfterUpload
    /\ UNCHANGED <<storedToken, selectedDoc, flow, phase, tok, docId, req, err, result,
                   snap, researchFolder, pin, pout, popup, overlay>>

-----------------------------------------------------------------------------
(* lib/docsInsert.js: insertImageWithSource.                               *)

\* the batchUpdate that inserts the inline image and the source line
InsertImageWithSource_Insert ==
    /\ pc = "im_insert"
    /\ \E r \in Outcomes : RemoteCall("insertImage", r, "im_end", "fn_thrown")
    /\ UNCHANGED <<storedToken, selectedDoc, flow, phase, tok, docId, req, result,
                   snap, researchFolder, pin, pout, popup, overlay>>

\* getDocumentEndIndex after the insertion
InsertImageWithSource_EndIndex ==
    /\ pc = "im_end"
    /\ \E r \in Outcomes : RemoteCall("getEndIndex", r, "im_link", "fn_thrown")
    /\ UNCHANGED <<storedToken, selectedDoc, flow, phase, tok, docId, req, result,
                   snap, researchFolder, pin, pout, popup, overlay>>

\* the updateTextStyle batchUpdate that links the title
InsertImageWithSource_Link ==
    /\ pc = "im_link"
    /\ \E r \in Outcomes : RemoteCall("linkStyle", r, "fn_returned", "fn_thrown")
    /\ UNCHANGED <<storedToken, selectedDoc, flow, phase, tok, docId, req, result,
                   snap, researchFolder, pin, pout, popup, overlay>>

-----------------------------------------------------------------------------
(* The steps the two revisions of handleSnipBounds share: overlay removal, *)
(* delay, capture of the visible tab, crop in the content script.          *)

\* notifyAndRemoveOverlay(tabId, title, message)
NotifyAndRemoveOverlay(title) ==
    <<Note(title), Ev("tab", "removeOverlay", "", "")>>

\* REMOVE_SNIP_OVERLAY is sent, then the fixed delay of 120 ms
Snip_RemoveOverlay ==
    /\ pc = "sn_overlay"
    /\ log' = log \o <<Ev("tab", "removeOverlay", "", ""), Ev("tab", "delay", "", "")>>
    /\ pc' = "sn_capture"
    /\ UNCHANGED <<storedToken, selectedDoc, flow, phase, tok, docId, req, err, result,
                   snap, researchFolder, pin, pout, popup, overlay>>

\* chrome.tabs.captureVisibleTab; a failure is notified and ends the attempt
Snip_Capture ==
    /\ pc = "sn_capture"
    /\ \E r \in {"ok", "throw"} :
          IF r = "ok"
          THEN /\ log' = Append(log, Ev("tab", "capture", "", r))
               /\ pc' = "sn_crop"
               /\ result' = result
          ELSE /\ log' = Append(log, Ev("tab", "capture", "", r))
                         \o NotifyAndRemoveOverlay("Capture failed")
               /\ pc' = "done"
               /\ result' = Result("resolved", FALSE, <<"Capture", "failed">>)
    /\ UNCHANGED <<storedToken, selectedDoc, flow, phase, tok, docId, req, err,
                   snap, researchFolder, pin, pout, popup, overlay>>

\* a crop step that goes on to the next step whatever the content script
\* answered
Snip_Crop_GoOn ==
    /\ pc = "sn_crop"
    /\ \E r \in {"ok", "throw", "snipError", "noData"} :
          log' = Append(log, Ev("tab", "crop", "", r))
    /\ pc' = IF flow = "snipRetry" THEN "dr_upload" ELSE "sn_paste"
    /\ UNCHANGED <<storedToken, selectedDoc, flow, phase, tok, docId, req, err, result,
                   snap, researchFolder, pin, pout, popup, overlay>>

\* CROP_IMAGE in the content script: a cropped image, a rejected message, a
\* SNIP_ERROR answer or an answer without image data
Snip_Crop ==
    /\ pc = "sn_crop"
    /\ \E r \in {"ok", "throw", "snipError", "noData"} :
          IF r = "ok"
          THEN /\ log' = Append(log, Ev("tab", "crop", "", r))
               /\ pc' = IF flow = "snipRetry" THEN "dr_upload" ELSE "sn_paste"
               /\ result' = result
          ELSE /\ log' = Append(log, Ev("tab", "crop", "", r))
                         \o NotifyAndRemoveOverlay("Snip failed")
               /\ pc' = "done"
               /\ result' = Result("resolved", FALSE, <<"Snip", "failed">>)
    /\ UNCHANGED <<storedToken, selectedDoc, flow, phase, tok, docId, req, err,
                   snap, researchFolder, pin, pout, popup, overlay>>

-----------------------------------------------------------------------------
(* handleSnipBounds, the revision that runs under withTokenRetry           *)
(* (src/unnamed/part_007).                                                 *)

\* the onMessage listener of the service worker at SNIP_BOUNDS: the message
\* is taken and the stored overlay flag is cleared before handleSnipBounds
\* is called
OnMessage_SnipBounds_Listener ==
    overlay' = [overlay EXCEPT
                  !.active = FALSE,
                  !.msgs = IF overlay.msgs # <<>> /\ Head(overlay.msgs) = "SNIP_BOUNDS"
                           THEN Tail(overlay.msgs) ELSE overlay.msgs]

\* lines 36-41: the selected document is read first
HandleSnipBoundsWtr_Start ==
    /\ CanStart
    /\ flow' = "snipWtr"
    /\ req' = [NoReq EXCEPT !.kind = "SNIP_BOUNDS"]
    /\ LET read == <<Ev("store", "getSelectedDocumentId", selectedDoc, "")>>
       IN  IF DocumentMissing(selectedDoc)
           THEN /\ log' = read \o NotifyAndRemoveOverlay("No document selected")
                /\ result' = Result("resolved", FALSE, MsgNoDocument)
                /\ pc' = "done"
                /\ docId' = NoDoc
           ELSE /\ log' = read
                /\ result' = NoResult
                /\ pc' = "sn_overlay"
                /\ docId' = selectedDoc
    /\ phase' = "first"
    /\ tok' = NoToken
    /\ err' = <<>>
    /\ snap' = NoSnap
    /\ OnMessage_SnipBounds_Listener
    /\ UNCHANGED <<storedToken, selectedDoc, researchFolder, pin, pout, popup>>

\* lines 78-90: tryPasteImageAtCursorInDocTab.  It answers true after both
\* pastes were triggered ("ok"), false when no document tab took a paste
\* ("no"), and false as well when a step after the first TRIGGER_PASTE failed
\* ("partial")
HandleSnipBoundsWtr_Paste ==
    /\ pc = "sn_paste"
    /\ \E r \in {"ok", "no", "partial"} :
          IF r = "ok"
          THEN /\ log' = log \o <<Ev("tab", "pasteImageAtCursor", "", r),
                                  Ev("tab", "removeOverlay", "", ""),
                                  Note("Snip and Plug")>>
               /\ result' = Result("resolved", TRUE, <<>>)
               /\ pc' = "done"
          ELSE /\ log' = Append(log, Ev("tab", "pasteImageAtCursor", "", r))
               /\ result' = result
               /\ pc' = "wtr_enter"
    /\ UNCHANGED <<storedToken, selectedDoc, flow, phase, tok, docId, req, err,
                   snap, researchFolder, pin, pout, popup, overlay>>

\* lines 100-121: withTokenRetry returned or threw
HandleSnipBoundsWtr_Settle ==
    /\ flow = "snipWtr"
    /\ pc \in {"wtr_returned", "wtr_thrown"}
    /\ log' = IF pc = "wtr_returned" THEN Append(log, Note("Snip and Plug"))
              ELSE IF Includes(err, MsgSignInRequired)
                   THEN log \o NotifyAndRemoveOverlay("Sign in required")
                   ELSE log \o NotifyAndRemoveOverlay("Snip and Plug failed")
    /\ result' = Result("resolved", pc = "wtr_returned",
                        IF pc = "wtr_returned" THEN <<>> ELSE err)
    /\ pc' = "done"
    /\ UNCHANGED <<storedToken, selectedDoc, flow, phase, tok, docId, req, err, snap,
                   researchFolder, pin, pout, popup, overlay>>

-----------------------------------------------------------------------------
(* background/snipFlow.js: handleSnipBounds with its own retries.          *)

\* handleSnipBoundsInner, lines 69-85, and getDocAndToken
HandleSnipBounds_Start ==
    /\ CanStart
    /\ flow' = "snipRetry"
    /\ req' = [NoReq EXCEPT !.kind = "SNIP_BOUNDS"]
    /\ \E silent \in Tokens \cup {NoToken} :
          LET access == IF silent # NoToken THEN silent ELSE storedToken
              lookup == <<Ev("store", "getSelectedDocumentId", selectedDoc, "")>>
                        \o IF selectedDoc = NoDoc THEN <<>>
                           ELSE <<Ev("cred", "getAuthTokenSilent", silent, "")>>
          IN  IF selectedDoc = NoDoc \/ access = NoToken
              THEN /\ log' = lookup \o NotifyAndRemoveOverlay(
                                IF storedToken = NoToken THEN "Sign in required"
                                ELSE IF selectedDoc = NoDoc THEN "No document selected"
                                ELSE "Connection problem")
                   /\ result' = Result("resolved", FALSE,
                                       IF storedToken = NoToken THEN MsgSignInRequired
                                       ELSE MsgNoDocument)
                   /\ pc' = "done"
                   /\ tok' = NoToken
                   /\ docId' = NoDoc
              ELSE /\ log' = lookup
                   /\ result' = NoResult
                   /\ pc' = "sn_overlay"
                   /\ tok' = access
                   /\ docId' = selectedDoc
    /\ phase' = "first"
    /\ err' = <<>>
    /\ snap' = NoSnap
    /\ OnMessage_SnipBounds_Listener
    /\ UNCHANGED <<storedToken, selectedDoc, researchFolder, pin, pout, popup>>

\* lines 135-159: uploadImageToDrive threw.  The first time, on
\* SESSION_EXPIRED, a fresh silent token is asked for and the upload is run
\* again with it; every other failure is notified and ends the attempt.
HandleSnipBounds_UploadCatch ==
    /\ pc = "up_thrown"
    /\ IF phase = "first" /\ err = MsgSessionExpiredSignal
       THEN \E fresh \in Tokens \cup {NoToken} :
              LET asked == log \o <<Ev("cred", "removeCachedAuthToken", tok, ""),
                                    Ev("cred", "getAuthTokenSilent", fresh, "")>>
              IN  IF fresh = NoToken
                  THEN /\ log' = asked \o NotifyAndRemoveOverlay("Session expired")
                       /\ result' = Result("resolved", FALSE, MsgSessionExpired)
                       /\ pc' = "done"
                       /\ UNCHANGED <<storedToken, tok, phase>>
                  ELSE /\ log' = Append(asked, Ev("cred", "storeAccessToken", fresh, ""))
                       /\ storedToken' = fresh
                       /\ tok' = fresh
                       /\ phase' = "retry"
                       /\ pc' = "dr_upload"
                       /\ result' = result
       ELSE /\ log' = log \o NotifyAndRemoveOverlay("Upload failed")
            /\ result' = Result("resolved", FALSE, err)
            /\ pc' = "done"
            /\ UNCHANGED <<storedToken, tok, phase>>
    /\ UNCHANGED <<selectedDoc, flow, docId, req, err, snap, researchFolder, pin, pout, popup, overlay>>

\* lines 161-168: the image is staged; insertImageWithSource is called
HandleSnipBounds_Uploaded ==
    /\ pc = "up_returned"
    /\ phase' = "first"
    /\ pc' = "im_insert"
    /\ UNCHANGED <<storedToken, selectedDoc, flow, tok, docId, req, err, log, result,
                   snap, researchFolder, pin, pout, popup, overlay>>

\* lines 176 and 192: insertImageWithSource returned
HandleSnipBounds_Done ==
    /\ pc = "fn_returned"
    /\ flow = "snipRetry"
    /\ log' = Append(log, Note("Snip and Plug"))
    /\ result' = Result("resolved", TRUE, <<>>)
    /\ pc' = "done"
    /\ UNCHANGED <<storedToken, selectedDoc, flow, phase, tok, docId, req, err, snap,
                   researchFolder, pin, pout, popup, overlay>>

\* lines 177-202 and the catch of handleSnipBounds, lines 61-66:
\* insertImageWithSource threw.  The first time, on SESSION_EXPIRED, a fresh
\* silent token is asked for and the whole of insertImageWithSource is run
\* again with it; without a fresh token the user is notified and the error is
\* thrown on.  Every error thrown on reaches the catch of handleSnipBounds,
\* which notifies and rethrows.
HandleSnipBounds_InsertCatch ==
    /\ pc = "fn_thrown"
    /\ flow = "snipRetry"
    /\ IF phase = "first" /\ err = MsgSessionExpiredSignal
       THEN \E fresh \in Tokens \cup {NoToken} :
              LET asked == log \o <<Ev("cred", "removeCachedAuthToken", tok, ""),
                                    Ev("cred", "getAuthTokenSilent", fresh, "")>>
              IN  IF fresh = NoToken
                  THEN /\ log' = asked \o NotifyAndRemoveOverlay("Session expired")
                                       \o NotifyAndRemoveOverlay("Snip and Plug failed")
                       /\ result' = Result("rejected", FALSE, err)
                       /\ pc' = "done"
                       /\ UNCHANGED <<storedToken, tok, phase>>
                  ELSE /\ log' = Append(asked, Ev("cred", "storeAccessToken", fresh, ""))
                       /\ storedToken' = fresh
                       /\ tok' = fresh
                       /\ phase' = "retry"
                       /\ pc' = "im_insert"
                       /\ result' = result
       ELSE /\ log' = log \o NotifyAndRemoveOverlay("Snip and Plug failed")
            /\ result' = Result("rejected", FALSE, err)
            /\ pc' = "done"
            /\ UNCHANGED <<storedToken, tok, phase>>
    /\ UNCHANGED <<selectedDoc, flow, docId, req, err, snap, researchFolder, pin, pout, popup, overlay>>

-----------------------------------------------------------------------------
(* background/messageHub.js: PLUG_IT_IN_AT_SECTION.                        *)

\* lines 157-169: the message is checked, then the selected document is read
PlugItInAtSection_Handle(wf, t) ==
    /\ flow' = "hub"
    /\ req' = [NoReq EXCEPT !.kind = "PLUG_IT_IN_AT_SECTION",
                            !.wellFormed = wf, !.text = t]
    /\ IF ~wf
       THEN /\ log' = <<>>
            /\ result' = Result("responded", FALSE, MsgMissing)
            /\ pc' = "done"
            /\ docId' = NoDoc
       ELSE /\ log' = <<Ev("store", "getSelectedDocumentId", selectedDoc, "")>>
            /\ IF DocumentMissing(selectedDoc)
               THEN /\ result' = Result("responded", FALSE, MsgNoDocument)
                    /\ pc' = "done"
                    /\ docId' = NoDoc
               ELSE /\ result' = NoResult
                    /\ pc' = "wtr_enter"
                    /\ docId' = selectedDoc
    /\ phase' = "first"
    /\ tok' = NoToken
    /\ err' = <<>>
    /\ snap' = NoSnap
    /\ UNCHANGED <<storedToken, selectedDoc, researchFolder, pin, pout, overlay>>

\* the message arrives, from any sender
PlugItInAtSection_Receive ==
    /\ CanStart
    /\ \E wf \in BOOLEAN, t \in FlowTexts : PlugItInAtSection_Handle(wf, t)
    /\ UNCHANGED popup

\* lines 170-180: withTokenRetry returned or threw; the response is sent
PlugItInAtSection_Respond ==
    /\ flow = "hub"
    /\ pc \in {"wtr_returned", "wtr_thrown"}
    /\ result' = IF pc = "wtr_returned"
                 THEN Result("responded", TRUE, <<>>)
                 ELSE Result("responded", FALSE, err)
    /\ pc' = "done"
    /\ UNCHANGED <<storedToken, selectedDoc, flow, phase, tok, docId, req, err, log,
                   snap, researchFolder, pin, pout, popup, overlay>>

-----------------------------------------------------------------------------
(* SpecParse: parseSelectionForInsert applied to every bounded input.      *)


\* the insertion indices of the bounded inputs
Starts == 1..MaxStart

\* a link range that leaves out the leading newline of the body text
LinkRangeNoNewline(insertStart, quoteLen, sourceLabel, title) ==
    [sourceStart |-> insertStart + quoteLen + Len(sourceLabel),
     sourceEnd   |-> insertStart + quoteLen + Len(sourceLabel) + Len(title)]

\* sourceStart and sourceEnd of the link-styling request
LinkRange(insertStart, quoteLen, sourceLabel, title) ==
    [sourceStart |-> insertStart + 1 + quoteLen + Len(sourceLabel),
     sourceEnd   |-> insertStart + 1 + quoteLen + Len(sourceLabel) + Len(title)]

\* the range of a createParagraphBullets request: from the start of the first
\* recorded range to the end of the last one
ListRequestRange(insertStart, ranges) ==
    [startIndex |-> insertStart + ranges[1].start,
     endIndex   |-> insertStart + ranges[Len(ranges)].end]

\* the link range has been computed for the output
Linked == "sourceStart" \in DOMAIN pout

InitParse ==
    /\ FlowInit
    /\ pin \in [text : Texts \cup ComposedTexts, title : Titles, start : Starts]
    /\ pout = NoOutput

\* the formatter runs on the input
Parse ==
    /\ pout = NoOutput
    /\ pout' = ParseSelectionForInsert(pin.text, SourceLabel, pin.title, TimeStr)
    /\ UNCHANGED <<pin, flowVars>>

\* insertHighlightAtPosition computes the range of its link-styling request
\* from the formatter's output and the insertion index
InsertHighlightAtPosition_LinkRange ==
    /\ pout # NoOutput
    /\ ~Linked
    /\ LET r == LinkRange(pin.start, pout.quoteLen, SourceLabel, pin.title)
       IN  pout' = [textToInsert   |-> pout.textToInsert,
                    bulletRanges   |-> pout.bulletRanges,
                    numberedRanges |-> pout.numberedRanges,
                    quoteLen       |-> pout.quoteLen,
                    sourceStart    |-> r.sourceStart,
                    sourceEnd      |-> r.sourceEnd]
    /\ UNCHANGED <<pin, flowVars>>

NextParse ==
    \/ Parse
    \/ InsertHighlightAtPosition_LinkRange

SpecParse == InitParse /\ [][NextParse]_vars

-----------------------------------------------------------------------------
(* SpecSections: the outline of getDocumentSections, lib/docsInsert.js,    *)
(* computed for every bounded document body.                               *)

\* the texts of the headings: two names and a heading with no text
HeadingTexts == {"Intro", "Methods", ""}

\* one element of body.content: a paragraph with a heading style, or any
\* other element; end is its endIndex
Elements ==
    {[heading |-> FALSE, end |-> e, text |-> ""] : e \in 1..MaxEnd}
    \cup {[heading |-> TRUE, end |-> e, text |-> t] : e \in 1..MaxEnd, t \in HeadingTexts}

\* the document of the scenario: Intro and Methods, body text ending at 50
\* and at 120
ScenarioContent ==
    << [heading |-> TRUE,  end |-> 7,   text |-> "Intro"],
       [heading |-> FALSE, end |-> 50,  text |-> ""],
       [heading |-> TRUE,  end |-> 58,  text |-> "Methods"],
       [heading |-> FALSE, end |-> 120, text |-> ""] >>

\* body.content as the Docs API returns it: the elements follow each other,
\* so their end offsets increase
Contents ==
    {c \in UNION {[1..n -> Elements] : n \in 0..MaxElems} :
        \A i, j \in 1..Len(c) : i < j => c[i].end < c[j].end}
    \cup {ScenarioContent}

\* Math.max
MathMax(a, b) == IF a >= b THEN a ELSE b

\* an insertion index at the very end of the last element of the section
SectionInsertAtEnd(lastContentEnd) == lastContentEnd

\* an insertion index past the end of the last element of the section
SectionInsertPastEnd(lastContentEnd) == lastContentEnd + 1

\* Math.max(1, lastContentEnd - 1), lines 279 and 295
SectionInsertAt(lastContentEnd) == MathMax(1, lastContentEnd - 1)

\* text.replace(/\n/g, ' ').trim().slice(0, 60) || '(unnamed)', for a heading
\* text that is short and holds no white space
HeadingLabel(text) == IF text = "" THEN "(unnamed)" ELSE text

\* sectionEndIndices with its last entry set to v (an entry is <<>> for null,
\* <<index>> otherwise)
SetLast(indices, v) == [indices EXCEPT ![Len(indices)] = <<v>>]

\* one iteration of the loop over body.content, lines 268-291
SectionsStep(acc, el) ==
    LET maxEnd == IF el.end > acc.maxEnd THEN el.end ELSE acc.maxEnd
    IN  IF el.heading
        THEN [maxEnd            |-> maxEnd,
              lastContentEnd    |-> acc.lastContentEnd,
              headingLabels     |-> Append(acc.headingLabels, HeadingLabel(el.text)),
              sectionEndIndices |->
                  Append(IF Len(acc.headingLabels) > 0
                         THEN SetLast(acc.sectionEndIndices,
                                      SectionInsertAt(acc.lastContentEnd))
                         ELSE acc.sectionEndIndices,
                         <<>>)]
        ELSE [acc EXCEPT !.maxEnd = maxEnd, !.lastContentEnd = el.end]

RECURSIVE SectionsLoop(_, _)
SectionsLoop(acc, content) ==
    IF content = <<>> THEN acc
    ELSE SectionsLoop(SectionsStep(acc, Head(content)), Tail(content))

\* getDocumentSections applied to the content of a fetched document,
\* lines 264-304
GetDocumentSections(content) ==
    LET acc   == SectionsLoop([maxEnd |-> 1, lastContentEnd |-> 1,
                               headingLabels |-> <<>>, sectionEndIndices |-> <<>>],
                              content)
        ends  == IF Len(acc.sectionEndIndices) > 0
                 THEN SetLast(acc.sectionEndIndices, SectionInsertAt(acc.lastContentEnd))
                 ELSE acc.sectionEndIndices
    IN  <<[kind |-> "beginning", name |-> "", index |-> 1]>>
        \o [i \in 1..Len(acc.headingLabels) |->
               [kind  |-> "section",
                name  |-> acc.headingLabels[i],
                index |-> IF ends[i] # <<>> THEN ends[i][1] ELSE acc.maxEnd]]
        \o <<[kind |-> "end", name |-> "", index |-> acc.maxEnd]>>

\* no outline computed yet
NoOutline == <<>>

InitSections ==
    /\ FlowInit
    /\ pin \in [content : Contents]
    /\ pout = NoOutline

\* the outline is computed for the document
Sections ==
    /\ pout = NoOutline
    /\ pout' = GetDocumentSections(pin.content)
    /\ UNCHANGED <<pin, flowVars>>

NextSections == Sections

SpecSections == InitSections /\ [][NextSections]_vars

-----------------------------------------------------------------------------
(* SpecCrop: the source rectangle of cropImage, content/snipOverlay.js,    *)
(* computed for every bounded region, scale factor and raster.             *)

\* the scale factors: dpr || window.devicePixelRatio || 1 is never 0
Scales == [num : 1..MaxNum, den : 1..MaxDen]

\* a capture region, the scale factor and the decoded raster (img.width W,
\* img.height H)
CropInputs ==
    [x : -1..MaxPos, y : -1..MaxPos, width : 1..MaxSide, height : 1..MaxSide,
     scale : Scales, W : 1..MaxRaster, H : 1..MaxRaster]

\* Math.min
MathMin(a, b) == IF a <= b THEN a ELSE b

\* Math.round(v * scale): the integer nearest to v * num / den, a half
\* rounded up
RoundScaled(v, scale) == (2 * v * scale.num + scale.den) \div (2 * scale.den)

\* a start offset left where the region put it
StartUnclamped(s, dim) == s

\* Math.min(sx, img.width - 1), lines 165 and 166
ClampStart(s, dim) == MathMin(s, dim - 1)

\* the source rectangle of lines 160-168
CropRect(bounds, scale, W, H) ==
    LET sx0 == MathMax(0, RoundScaled(bounds.x, scale))
        sy0 == MathMax(0, RoundScaled(bounds.y, scale))
        sw0 == MathMax(1, RoundScaled(bounds.width, scale))
        sh0 == MathMax(1, RoundScaled(bounds.height, scale))
        sx  == ClampStart(sx0, W)
        sy  == ClampStart(sy0, H)
    IN  [sx |-> sx, sy |-> sy,
         sw |-> MathMin(sw0, W - sx),
         sh |-> MathMin(sh0, H - sy)]

\* no rectangle computed yet
NoCrop == [sx |-> -1, sy |-> -1, sw |-> -1, sh |-> -1]

InitCrop ==
    /\ FlowInit
    /\ pin \in CropInputs
    /\ pout = NoCrop

\* img.onload computes the source rectangle
CropImage ==
    /\ pout = NoCrop
    /\ pout' = CropRect(pin, pin.scale, pin.W, pin.H)
    /\ UNCHANGED <<pin, flowVars>>

NextCrop == CropImage

SpecCrop == InitCrop /\ [][NextCrop]_vars

-----------------------------------------------------------------------------
(* SpecPopup: the placement picker of components/ConnectedDocument.jsx and *)
(* the two hub handlers it talks to, DOCS_GET_SECTIONS and                 *)
(* PLUG_IT_IN_AT_SECTION.                                                  *)

\* the error shown when the page has no selected text
MsgNoSelection == <<"No", "text", "selected">>

\* handlePlugItIn, lines 59-80, and DOCS_GET_SECTIONS, lines 139-145: the
\* selection of the active tab is read; with one, the sections of the
\* selected document are asked for
HandlePlugItIn_Start ==
    /\ CanStart
    /\ popup.step = "none"
    /\ flow' = "sections"
    /\ \E sel \in FlowTexts \cup {<<>>} :
          /\ req' = [NoReq EXCEPT !.kind = "DOCS_GET_SECTIONS", !.text = sel]
          /\ IF sel = <<>>
             THEN /\ log' = <<Ev("tab", "getPlugSelection", "", "none")>>
                  /\ result' = Result("resolved", FALSE, MsgNoSelection)
                  /\ pc' = "done"
                  /\ docId' = NoDoc
                  /\ popup' = popup
             ELSE /\ log' = <<Ev("tab", "getPlugSelection", "", "ok"),
                              Ev("store", "getSelectedDocumentId", selectedDoc, "")>>
                  /\ IF DocumentMissing(selectedDoc)
                     THEN /\ result' = Result("responded", FALSE, MsgNoDocument)
                          /\ pc' = "done"
                          /\ docId' = NoDoc
                          /\ popup' = popup
                     ELSE /\ result' = NoResult
                          /\ pc' = "wtr_enter"
                          /\ docId' = selectedDoc
                          /\ popup' = [popup EXCEPT !.step = "loading"]
    /\ phase' = "first"
    /\ tok' = NoToken
    /\ err' = <<>>
    /\ snap' = NoSnap
    /\ UNCHANGED <<storedToken, selectedDoc, researchFolder, pin, pout, overlay>>

\* getDocumentSections, lib/docsInsert.js lines 247-262: the GET of the document
GetDocumentSections_Fetch ==
    /\ pc = "gs_fetch"
    /\ \E r \in Outcomes : RemoteCall("getDocument", r, "fn_returned", "fn_thrown")
    /\ UNCHANGED <<storedToken, selectedDoc, flow, phase, tok, docId, req, result,
                   snap, researchFolder, pin, pout, popup, overlay>>

\* DOCS_GET_SECTIONS answers, lines 146-153, and handlePlugItIn goes on,
\* lines 81-94: with the sections the picker keeps the selection and the
\* outline and shows them; otherwise it shows the error
HandlePlugItIn_Settle ==
    /\ flow = "sections"
    /\ pc \in {"wtr_returned", "wtr_thrown"}
    /\ IF pc = "wtr_returned"
       THEN /\ result' = Result("responded", TRUE, <<>>)
            /\ popup' = [step |-> "sections", doc |-> docId, selection |-> req.text,
                         edited |-> FALSE]
       ELSE /\ result' = Result("responded", FALSE, err)
            /\ popup' = NoPopup
    /\ pc' = "done"
    /\ UNCHANGED <<storedToken, selectedDoc, flow, phase, tok, docId, req, err, log,
                   snap, researchFolder, pin, pout, overlay>>

\* handlePickSection, lines 97-101: a section of the held outline is picked
\* and PLUG_IT_IN_AT_SECTION is sent with its index
HandlePickSection_Send ==
    /\ CanStart
    /\ popup.step = "sections"
    /\ PlugItInAtSection_Handle(TRUE, popup.selection)
    /\ popup' = [popup EXCEPT !.step = "inserting"]

\* handlePickSection, lines 102-116: on success the picker is cleared; on a
\* failure the error is shown and the picker goes back to the same sections
HandlePickSection_Response ==
    /\ flow = "hub"
    /\ pc = "done"
    /\ popup.step = "inserting"
    /\ popup' = IF result.ok THEN NoPopup
                ELSE [popup EXCEPT
                        !.step = "sections",
                        !.edited = \/ popup.edited
                                   \/ /\ docId = popup.doc
                                      /\ \E i \in CallsOf(log, "insertText") :
                                            log[i].res = "ok"]
    /\ UNCHANGED <<storedToken, selectedDoc, flow, pc, phase, tok, docId, req, err, log,
                   result, snap, researchFolder, pin, pout, overlay>>

\* handleCancelPlug, lines 119-124
HandleCancelPlug ==
    /\ popup.step = "sections"
    /\ popup' = NoPopup
    /\ UNCHANGED <<storedToken, selectedDoc, flow, pc, phase, tok, docId, req, err, log,
                   result, snap, researchFolder, pin, pout, overlay>>

\* DOCS_CREATE, messageHub.js lines 93-95: createNewDoc is run under
\* withTokenRetry
DocsCreate_Receive ==
    /\ CanStart
    /\ flow' = "create"
    /\ req' = [NoReq EXCEPT !.kind = "DOCS_CREATE"]
    /\ log' = <<>>
    /\ result' = NoResult
    /\ pc' = "wtr_enter"
    /\ docId' = NoDoc
    /\ phase' = "first"
    /\ tok' = NoToken
    /\ err' = <<>>
    /\ snap' = NoSnap
    /\ UNCHANGED <<storedToken, selectedDoc, researchFolder, pin, pout, popup, overlay>>

\* createNewDoc, googleDrive.js lines 154-180: the POST that creates the file
CreateNewDoc_Create ==
    /\ pc = "cd_create"
    /\ \E r \in Outcomes : RemoteCall("createDoc", r, "fn_returned", "fn_thrown")
    /\ UNCHANGED <<storedToken, selectedDoc, flow, phase, tok, docId, req, result,
                   snap, researchFolder, pin, pout, popup, overlay>>

\* DOCS_CREATE, lines 96-105: the new document becomes the selected one, or
\* the error is answered
DocsCreate_Respond ==
    /\ flow = "create"
    /\ pc \in {"wtr_returned", "wtr_thrown"}
    /\ IF pc = "wtr_returned"
       THEN /\ \E d \in Docs \ {selectedDoc} : selectedDoc' = d
            /\ result' = Result("responded", TRUE, <<>>)
       ELSE /\ selectedDoc' = selectedDoc
            /\ result' = Result("responded", FALSE, err)
    /\ pc' = "done"
    /\ UNCHANGED <<storedToken, flow, phase, tok, docId, req, err, log,
                   snap, researchFolder, pin, pout, popup, overlay>>

\* nobody is signed in, no document is selected, the picker is closed
InitPopup ==
    /\ FlowInit
    /\ pin = [text |-> <<>>, title |-> <<"T">>, start |-> 1]
    /\ pout = NoOutput

NextPopup ==
    \/ AuthConnect
    \/ AuthDisconnect
    \/ DocsSetSelected
    \/ DocsCreate_Receive
    \/ CreateNewDoc_Create
    \/ DocsCreate_Respond
    \/ HandlePlugItIn_Start
    \/ WithTokenRetry_GetToken
    \/ WithTokenRetry_Return
    \/ WithTokenRetry_Catch
    \/ GetDocumentSections_Fetch
    \/ HandlePlugItIn_Settle
    \/ HandlePickSection_Send
    \/ InsertHighlightAtPosition_Insert
    \/ InsertHighlightAtPosition_List
    \/ InsertHighlightAtPosition_Link
    \/ PlugItInAtSection_Respond
    \/ HandlePickSection_Response
    \/ HandleCancelPlug

SpecPopup == InitPopup /\ [][NextPopup]_vars

-----------------------------------------------------------------------------
(* SpecSnip: the overlay of content/snipOverlay.js, the snip messages of   *)
(* the service worker and handleSnipBounds.                                *)

\* START_SNIP and SNIP_START_WITH_SECTION, service worker lines 77-99, then
\* the injected script, lines 5-20 and 47-130: the snip insert index is
\* cleared or set and the script is injected.  With an overlay in the page
\* the script removes it and sends SNIP_CANCEL; otherwise createOverlay
\* shows one, registers the Escape listener and sends SNIP_OVERLAY_CREATED.
\* A failed injection is notified.
StartSnip ==
    /\ CanStart
    /\ overlay.msgs = <<>>
    /\ ResetLocals
    /\ \E withSection \in BOOLEAN, injected \in BOOLEAN :
          IF ~injected
          THEN overlay' = [overlay EXCEPT !.insertIndex = withSection]
          ELSE IF overlay.dom
          THEN overlay' = [overlay EXCEPT !.insertIndex = withSection,
                                          !.dom = FALSE,
                                          !.msgs = <<"SNIP_CANCEL">>,
                                          !.cancelled = TRUE]
          ELSE overlay' = [overlay EXCEPT !.insertIndex = withSection,
                                          !.dom = TRUE,
                                          !.esc = TRUE,
                                          !.msgs = <<"SNIP_OVERLAY_CREATED">>,
                                          !.cancelled = FALSE,
                                          !.late = FALSE,
                                          !.isDrawing = FALSE,
                                          !.currentW = 0,
                                          !.currentH = 0,
                                          !.discarded = FALSE]
    /\ UNCHANGED <<storedToken, selectedDoc, researchFolder, pin, pout, popup>>

\* SNIP_OVERLAY_CREATED, service worker lines 100-104
OnMessage_SnipOverlayCreated ==
    /\ overlay.msgs # <<>>
    /\ Head(overlay.msgs) = "SNIP_OVERLAY_CREATED"
    /\ overlay' = [overlay EXCEPT !.active = TRUE, !.msgs = Tail(overlay.msgs)]
    /\ UNCHANGED <<storedToken, selectedDoc, flow, pc, phase, tok, docId, req, err, log,
                   result, snap, researchFolder, pin, pout, popup>>

\* the smallest width and height, in CSS pixels, of a rectangle that is sent
MinSide == 5

\* the widths and heights a drag can reach: one below the threshold and the
\* threshold itself
DragSides == {MinSide - 1, MinSide}

\* mousedown on the overlay, lines 61-72: a drag starts with an empty rectangle
Overlay_MouseDown ==
    /\ overlay.dom
    /\ overlay' = [overlay EXCEPT !.isDrawing = TRUE, !.currentW = 0, !.currentH = 0,
                                  !.discarded = FALSE]
    /\ UNCHANGED <<storedToken, selectedDoc, flow, pc, phase, tok, docId, req, err, log,
                   result, snap, researchFolder, pin, pout, popup>>

\* mousemove during a drag, lines 74-87
Overlay_MouseMove ==
    /\ overlay.dom
    /\ overlay.isDrawing
    /\ \E w \in DragSides, h \in DragSides :
          overlay' = [overlay EXCEPT !.currentW = w, !.currentH = h]
    /\ UNCHANGED <<storedToken, selectedDoc, flow, pc, phase, tok, docId, req, err, log,
                   result, snap, researchFolder, pin, pout, popup>>

\* mouseleave during a drag, lines 111-117: the drag ends, nothing is sent
Overlay_MouseLeave ==
    /\ overlay.dom
    /\ overlay.isDrawing
    /\ overlay' = [overlay EXCEPT !.isDrawing = FALSE]
    /\ UNCHANGED <<storedToken, selectedDoc, flow, pc, phase, tok, docId, req, err, log,
                   result, snap, researchFolder, pin, pout, popup>>

\* a test of the drawn rectangle that finds none too small
TooSmallNever(w, h) == FALSE

\* currentW < 5 || currentH < 5, line 95
TooSmall(w, h) == w < MinSide \/ h < MinSide

\* mouseup on the overlay during a drag, lines 89-109: a rectangle that is
\* too small is dropped and the overlay stays; otherwise SNIP_BOUNDS is sent
\* and the overlay removed.  The Escape listener stays registered.
Overlay_MouseUp ==
    /\ overlay.dom
    /\ overlay.isDrawing
    /\ IF TooSmall(overlay.currentW, overlay.currentH)
       THEN overlay' = [overlay EXCEPT !.isDrawing = FALSE, !.discarded = TRUE]
       ELSE overlay' = [overlay EXCEPT !.isDrawing = FALSE,
                                       !.dom = FALSE,
                                       !.msgs = Append(overlay.msgs, "SNIP_BOUNDS")]
    /\ UNCHANGED <<storedToken, selectedDoc, flow, pc, phase, tok, docId, req, err, log,
                   result, snap, researchFolder, pin, pout, popup>>

\* Escape, lines 119-124, and cancel, lines 40-45: the listener removes
\* itself, the overlay is removed if it is there and SNIP_CANCEL is sent
Overlay_Escape ==
    /\ overlay.esc
    /\ overlay' = [overlay EXCEPT !.esc = FALSE,
                                  !.dom = FALSE,
                                  !.msgs = Append(overlay.msgs, "SNIP_CANCEL"),
                                  !.cancelled = overlay.cancelled \/ overlay.dom]
    /\ UNCHANGED <<storedToken, selectedDoc, flow, pc, phase, tok, docId, req, err, log,
                   result, snap, researchFolder, pin, pout, popup>>

\* SNIP_BOUNDS, service worker lines 105-118: handleSnipBounds is called, in
\* either revision
OnMessage_SnipBounds ==
    /\ overlay.msgs # <<>>
    /\ Head(overlay.msgs) = "SNIP_BOUNDS"
    /\ \/ HandleSnipBounds_Start
       \/ HandleSnipBoundsWtr_Start

\* a SNIP_CANCEL handler that also ends the attempt in flight
OnMessage_SnipCancel_Aborting ==
    /\ overlay.msgs # <<>>
    /\ Head(overlay.msgs) = "SNIP_CANCEL"
    /\ overlay' = [overlay EXCEPT !.active = FALSE,
                                  !.insertIndex = FALSE,
                                  !.msgs = Tail(overlay.msgs),
                                  !.late = overlay.late \/ ~Quiet]
    /\ pc' = "done"
    /\ UNCHANGED <<storedToken, selectedDoc, flow, phase, tok, docId, req, err, log,
                   result, snap, researchFolder, pin, pout, popup>>

\* SNIP_CANCEL, service worker lines 119-124: the stored overlay flag and
\* the stored snip insert index are cleared
OnMessage_SnipCancel ==
    /\ overlay.msgs # <<>>
    /\ Head(overlay.msgs) = "SNIP_CANCEL"
    /\ overlay' = [overlay EXCEPT !.active = FALSE,
                                  !.insertIndex = FALSE,
                                  !.msgs = Tail(overlay.msgs),
                                  !.late = overlay.late \/ ~Quiet]
    /\ UNCHANGED <<storedToken, selectedDoc, flow, pc, phase, tok, docId, req, err, log,
                   result, snap, researchFolder, pin, pout, popup>>

\* the steps of a running handleSnipBounds, in either revision
SnipAttemptStep ==
    \/ Snip_RemoveOverlay
    \/ Snip_Capture
    \/ Snip_Crop
    \/ WithTokenRetry_GetToken
    \/ WithTokenRetry_Return
    \/ WithTokenRetry_Catch
    \/ EnsureResearchSnipsFolder
    \/ UploadImageToDrive_Upload
    \/ UploadImageToDrive_Permission
    \/ UploadImageToDrive_GetUrl
    \/ InsertImageWithSource_Insert
    \/ InsertImageWithSource_EndIndex
    \/ InsertImageWithSource_Link
    \/ HandleSnipBoundsWtr_Paste
    \/ HandleSnipBoundsWtr_Settle
    \/ HandleSnipBounds_UploadCatch
    \/ HandleSnipBounds_Uploaded
    \/ HandleSnipBounds_Done
    \/ HandleSnipBounds_InsertCatch

\* nobody is signed in, no document is selected, no overlay is in the page
InitSnip ==
    /\ FlowInit
    /\ pin = [text |-> <<>>, title |-> <<"T">>, start |-> 1]
    /\ pout = NoOutput

NextSnip ==
    \/ AuthConnect
    \/ AuthDisconnect
    \/ DocsSetSelected
    \/ StartSnip
    \/ OnMessage_SnipOverlayCreated
    \/ Overlay_MouseDown
    \/ Overlay_MouseMove
    \/ Overlay_MouseLeave
    \/ Overlay_MouseUp
    \/ Overlay_Escape
    \/ OnMessage_SnipBounds
    \/ OnMessage_SnipCancel
    \/ SnipAttemptStep

\* every step of handleSnipBounds is a promise continuation of the service
\* worker: once it can run, it runs
SpecSnip == InitSnip /\ [][NextSnip]_vars /\ WF_vars(SnipAttemptStep)

-----------------------------------------------------------------------------
(* SpecAppend: the implicit append of insertHighlightToDoc,                *)
(* lib/docsInsert.js, on the text of a document.  The body of a document   *)
(* is the sequence of its characters; the character at position p has the  *)
(* document index p (index 0 holds the section break), and the body always *)
(* ends with the newline of its last paragraph.                            *)

\* the bodies of the bounded documents
DocBodies ==
    {b \in UNION {[1..n -> {"x", NL}] : n \in 1..MaxDocLen} : b[Len(b)] = NL}

\* the endIndex of the elements of body.content: 1 for the section break and,
\* for each paragraph, the index after its newline
ContentEndIndices(body) == {1} \cup {i + 1 : i \in {p \in 1..Len(body) : body[p] = NL}}

\* getDocumentEndIndex, lines 15-40: the largest endIndex of body.content
GetDocumentEndIndex(body) ==
    CHOOSE e \in ContentEndIndices(body) : \A f \in ContentEndIndices(body) : f <= e

\* insertText with endOfSegmentLocation, as the document service applies
\* it: the text goes at the end of the body, before the newline that ends it
InsertAtEndOfSegment(body, text) ==
    SubSeq(body, 1, Len(body) - 1) \o text \o <<NL>>

\* the start offset recovered after the append, line 140
InsertStartAfterAppend(endAfterInsert, fullText) == endAfterInsert - Len(fullText)

\* nothing appended yet
NoAppend == [body |-> <<>>, fullText |-> <<>>, endAfterInsert |-> 0, insertStart |-> 0]

InitAppend ==
    /\ FlowInit
    /\ pin \in [body : DocBodies, text : ComposedTexts, title : Titles]
    /\ pout = NoAppend

\* insertHighlightToDoc, lines 91-140, every call answering 200: the body
\* text is appended, the end index is fetched again and the start offset
\* computed
InsertHighlightToDoc_Append ==
    /\ pout = NoAppend
    /\ LET fullText == ParseSelectionForInsert(pin.text, SourceLabel, pin.title,
                                               TimeStr).textToInsert
           body     == InsertAtEndOfSegment(pin.body, fullText)
           endAfterInsert == GetDocumentEndIndex(body)
       IN  pout' = [body |-> body, fullText |-> fullText,
                    endAfterInsert |-> endAfterInsert,
                    insertStart |-> InsertStartAfterAppend(endAfterInsert, fullText)]
    /\ UNCHANGED <<pin, flowVars>>

NextAppend == InsertHighlightToDoc_Append

SpecAppend == InitAppend /\ [][NextAppend]_vars

-----------------------------------------------------------------------------
(* SpecDocsList: lib/googleApi.js, fetchDocsList, with the token functions *)
(* of lib/auth.js.  pin is the accessToken argument, pout the list the     *)
(* call returned.                                                           *)

\* the names a file of a list answer carries; the first stands for an absent
\* or empty name
FileNames == {<<>>, <<"n">>}

\* the files arrays a list answer holds
FileLists ==
    UNION {[1..n -> [id : Docs, name : FileNames]] : n \in 0..MaxFiles}

\* line 51: every file keeps its id and gets the name 'Untitled' when it
\* has none
MapFiles(files) ==
    [i \in 1..Len(files) |->
        [id |-> files[i].id,
         name |-> IF files[i].name = <<>> THEN <<"Untitled">> ELSE files[i].name]]

MsgNoTokenReturned == <<"No", "token", "returned.">>
MsgDriveApiError == <<"Drive", "API", "error:", "500">>

\* no list was returned
NoList == <<[id |-> NoDoc, name |-> <<>>]>>

InitDocsList ==
    /\ FlowInit
    /\ pin \in Tokens \cup {NoToken}
    /\ pout = NoList

\* line 18: the token passed in is used; without one getAuthToken asks the
\* identity service interactively and rejects when no token comes back
FetchDocsList_Token ==
    /\ pc = "idle"
    /\ flow' = "docsList"
    /\ IF pin # NoToken
       THEN /\ tok' = pin
            /\ pc' = "fd_fetch"
            /\ UNCHANGED <<log, err, result>>
       ELSE \E t \in Tokens \cup {NoToken} :
              /\ log' = Append(log, Ev("cred", "getAuthToken", t, ""))
              /\ IF t = NoToken
                 THEN /\ err' = MsgNoTokenReturned
                      /\ result' = Result("thrown", FALSE, MsgNoTokenReturned)
                      /\ pc' = "done"
                      /\ tok' = tok
                 ELSE /\ tok' = t
                      /\ pc' = "fd_fetch"
                      /\ UNCHANGED <<err, result>>
    /\ UNCHANGED <<storedToken, selectedDoc, phase, docId, req, snap, researchFolder,
                   pin, pout, popup, overlay>>

\* lines 21-26 and 37-51: the list request; a 200 answer returns the mapped
\* files, an answer other than 401 and 200 throws the service's message
FetchDocsList_Fetch ==
    /\ pc = "fd_fetch"
    /\ Cardinality(CallsOf(log, "list")) < MaxRequests
    /\ \E r \in {"ok", "401", "err"} :
          /\ log' = Append(log, Ev("call", "list", tok, r))
          /\ IF r = "ok"
             THEN /\ \E files \in FileLists : pout' = MapFiles(files)
                  /\ result' = Result("returned", TRUE, <<>>)
                  /\ pc' = "done"
                  /\ err' = err
             ELSE IF r = "401"
             THEN /\ pc' = "fd_401"
                  /\ UNCHANGED <<pout, result, err>>
             ELSE /\ err' = MsgDriveApiError
                  /\ result' = Result("thrown", FALSE, MsgDriveApiError)
                  /\ pc' = "done"
                  /\ pout' = pout
    /\ UNCHANGED <<storedToken, selectedDoc, flow, phase, tok, docId, req, snap,
                   researchFolder, pin, popup, overlay>>

\* lines 28-35: after a 401 the token is removed from the cache and a token
\* is asked for silently; with one fetchDocsList calls itself, without one
\* it throws 'Session expired'
FetchDocsList_On401 ==
    /\ pc = "fd_401"
    /\ \E t \in Tokens \cup {NoToken} :
          /\ log' = log \o <<Ev("cred", "removeCachedAuthToken", tok, ""),
                             Ev("cred", "getAuthTokenSilent", t, "")>>
          /\ IF t # NoToken
             THEN /\ tok' = t
                  /\ pc' = "fd_fetch"
                  /\ UNCHANGED <<err, result>>
             ELSE /\ err' = MsgSessionExpired
                  /\ result' = Result("thrown", FALSE, MsgSessionExpired)
                  /\ pc' = "done"
                  /\ tok' = tok
    /\ UNCHANGED <<storedToken, selectedDoc, flow, phase, docId, req, snap,
                   researchFolder, pin, pout, popup, overlay>>

NextDocsList ==
    \/ FetchDocsList_Token
    \/ FetchDocsList_Fetch
    \/ FetchDocsList_On401

SpecDocsList == InitDocsList /\ [][NextDocsList]_vars

-----------------------------------------------------------------------------
(* Spec: the handlers, one attempt at a time.                              *)

Init ==
    /\ FlowInit
    /\ pin = [text |-> <<>>, title |-> <<"T">>, start |-> 1]
    /\ pout = NoOutput

Next ==
    \/ AuthConnect
    \/ AuthDisconnect
    \/ DocsSetSelected
    \/ WithTokenRetry_GetToken
    \/ WithTokenRetry_Return
    \/ WithTokenRetry_Catch
    \/ InsertHighlightAtPosition_Insert
    \/ InsertHighlightAtPosition_List
    \/ InsertHighlightAtPosition_Link
    \/ PlugItInAtSection_Receive
    \/ PlugItInAtSection_Respond
    \/ InsertHighlightToDoc_Insert
    \/ InsertHighlightToDoc_EndIndex
    \/ InsertHighlightToDoc_List
    \/ InsertHighlightToDoc_Link
    \/ PlugHighlightIntoDoc_Call
    \/ PlugHighlightIntoDoc_GetDocAndToken
    \/ PlugHighlightIntoDoc_Done
    \/ PlugHighlightIntoDoc_Catch
    \/ OnContextMenuClick_Start
    \/ OnContextMenuClick_Settle
    \/ PlugHighlightIntoDocWtr_Start
    \/ PlugHighlightIntoDocWtr_Settle
    \/ EnsureResearchSnipsFolder
    \/ UploadImageToDrive_Upload
    \/ UploadImageToDrive_Permission
    \/ UploadImageToDrive_GetUrl
    \/ InsertImageWithSource_Insert
    \/ InsertImageWithSource_EndIndex
    \/ InsertImageWithSource_Link
    \/ Snip_RemoveOverlay
    \/ Snip_Capture
    \/ Snip_Crop
    \/ HandleSnipBoundsWtr_Start
    \/ HandleSnipBoundsWtr_Paste
    \/ HandleSnipBoundsWtr_Settle
    \/ HandleSnipBounds_Start
    \/ HandleSnipBounds_UploadCatch
    \/ HandleSnipBounds_Uploaded
    \/ HandleSnipBounds_Done
    \/ HandleSnipBounds_InsertCatch

Spec == Init /\ [][Next]_vars

-----------------------------------------------------------------------------
(* Properties.                                                             *)

\* the largest element of a non-empty set of numbers
Max(S) == CHOOSE x \in S : \A y \in S : y <= x

\* the positions of log l that hold a successful insertion of the body text
\* or of the image
OkInserts(l) ==
    {i \in 1..Len(l) : /\ l[i].k = "call"
                       /\ l[i].op \in {"insertText", "insertImage"}
                       /\ l[i].res = "ok"}

\* the positions of log l that hold the credential operation op
CredOps(l, op) == {i \in EventsOf(l, "cred") : l[i].op = op}

\* the last remote call of log l
LastCall(l) == l[Max(EventsOf(l, "call"))]

\* C1: in one attempt of plugHighlightIntoDoc or handleSnipBounds (the
\* revisions that fetch a fresh token themselves), whatever the remote calls
\* answer, the request that inserts the text or the image succeeds at most
\* once, and exactly once when the attempt reports success.
C1_ExactlyOnceInsertion ==
    flow \in {"plugRetry", "snipRetry"} =>
        /\ Cardinality(OkInserts(log)) <= 1
        /\ (pc = "done" /\ result.ok) => Cardinality(OkInserts(log)) = 1

\* C2: in every run of withTokenRetry(fn), fn is invoked at most once; it is
\* invoked zero times exactly when no credential is stored, and then the call
\* fails with 'Sign in required' and the stored token, the selected document,
\* the stored folder and the notifications are what they were.
C2_FnInvokedAtMostOnce ==
    flow \in WtrFlows =>
        /\ Cardinality(EventsOf(log, "fn")) <= 1
        /\ pc \in {"wtr_returned", "wtr_thrown"} =>
              /\ (EventsOf(log, "fn") = {}) <=> (snap.token = NoToken)
              /\ snap.token = NoToken =>
                    /\ pc = "wtr_thrown"
                    /\ err = MsgSignInRequired
                    /\ storedToken = snap.token
                    /\ selectedDoc = snap.doc
                    /\ researchFolder = snap.folder
                    /\ NoteCount(log) = snap.notes
                    /\ EventsOf(log, "call") = {}

\* a run of withTokenRetry ended without a stored credential
C2_Witness ==
    /\ flow \in WtrFlows
    /\ pc = "wtr_thrown"
    /\ snap.token = NoToken
    /\ snap.doc # NoDoc
    /\ EventsOf(log, "fn") = {}

\* the insert call of the PLUG_IT_IN_AT_SECTION request in flight answered 401
InsertAnswered401 ==
    /\ flow = "hub"
    /\ \E i \in CallsOf(log, "insertText") : log[i].res = "401"

\* C3: when the insert call of a PLUG_IT_IN_AT_SECTION request answers 401,
\* the credential is invalidated exactly once, no other credential is
\* acquired or tried, no call is issued after the failed one, and the request
\* ends with the error 'Session expired'.
C3_AuthFailureEndsAttempt ==
    InsertAnswered401 =>
        /\ Cardinality(EventsOf(log, "call")) = 1
        /\ \A i \in EventsOf(log, "call") : log[i].arg = snap.token
        /\ \A i \in EventsOf(log, "cred") :
              log[i].op \in {"getStoredAccessToken", "clearAuthState"}
        /\ Cardinality(EventsOf(log, "fn")) = 1
        /\ Cardinality(CredOps(log, "clearAuthState")) <= 1
        /\ pc \in {"wtr_thrown", "done"} =>
              /\ Cardinality(CredOps(log, "clearAuthState")) = 1
              /\ storedToken = NoToken
              /\ err = MsgSessionExpired
        /\ pc = "done" => result = Result("responded", FALSE, MsgSessionExpired)

\* a PLUG_IT_IN_AT_SECTION request whose insert call answered 401 was answered
C3_Witness ==
    /\ InsertAnswered401
    /\ pc = "done"
    /\ snap.token # NoToken

\* C4: when the function wrapped by withTokenRetry fails with an error that
\* did not come from an authentication failure (a remote call answered a
\* status other than 401, whatever the message), withTokenRetry throws that
\* same error and the stored token, the selected document and the
\* notification count are what they were when it was entered.
C4_OtherErrorsPropagateUnchanged ==
    ( /\ flow \in WtrFlows
      /\ pc = "wtr_thrown"
      /\ EventsOf(log, "call") # {}
      /\ LastCall(log).res \in {"err", "err401"} ) =>
        /\ err = ErrMsg(LastCall(log).res)
        /\ storedToken = snap.token
        /\ selectedDoc = snap.doc
        /\ NoteCount(log) = snap.notes

\* C5: every insertion attempt that ends in failure shows exactly one
\* notification.
C5_OneNotificationPerFailure ==
    ( /\ flow \in {"plugWtr", "snipWtr", "snipRetry"}
      /\ pc = "done"
      /\ ~result.ok ) => NoteCount(log) = 1

\* the attempt in flight read the selected document and found none
ReadNoDocument ==
    /\ log # <<>>
    /\ log[1] = Ev("store", "getSelectedDocumentId", NoDoc, "")

\* C6: with no document selected, a PLUG_IT_IN_AT_SECTION request (one that
\* carries selectionData and insertIndex) and a handleSnipBounds attempt end
\* with 'No document selected', whether or not a token is stored, and issue no
\* capture, no credential lookup and no remote call.
C6_NoDocumentSelected ==
    (flow \in {"hub", "snipWtr"} /\ req.wellFormed /\ ReadNoDocument) =>
        /\ pc = "done"
        /\ result.error = MsgNoDocument
        /\ ~result.ok
        /\ flow = "hub" => result.status = "responded" /\ Len(log) = 1
        /\ flow = "snipWtr" =>
              log = <<log[1], Note("No document selected"),
                      Ev("tab", "removeOverlay", "", "")>>
        /\ EventsOf(log, "cred") = {}
        /\ EventsOf(log, "call") = {}
        /\ EventsOf(log, "fn") = {}
        /\ \A i \in EventsOf(log, "tab") : log[i].op \notin {"capture", "crop"}

\* a handleSnipBounds attempt found no document while a token was stored
C6_Witness ==
    /\ flow = "snipWtr"
    /\ ReadNoDocument
    /\ pc = "done"
    /\ storedToken # NoToken

\* the position after which the calls of the current run of
\* insertHighlightToDoc or insertHighlightAtPosition are logged: the retry of
\* plugHighlightIntoDoc starts a new run after it stored the fresh token
RunStart(l) ==
    IF CredOps(l, "storeAccessToken") = {} THEN 0 ELSE Max(CredOps(l, "storeAccessToken"))

\* the remote calls of the current run, in the order they were issued
RunCalls(l) == SelectSeq(SubSeq(l, RunStart(l) + 1, Len(l)), LAMBDA e : e.k = "call")

\* the calls a complete run issues for the request's selection
ExpectedCalls ==
    <<"insertText">>
    \o (IF flow = "hub" THEN <<>> ELSE <<"getEndIndex">>)
    \o (IF Len(ReqParse.bulletRanges) + Len(ReqParse.numberedRanges) > 0
        THEN <<"listFormat">> ELSE <<>>)
    \o <<"linkStyle">>

\* C7: insertHighlightToDoc and insertHighlightAtPosition issue their calls in
\* the order insert text, list formatting, link styling; a call is issued
\* only if every earlier call of the run succeeded, a failing call is the
\* last one of the run, and the list-formatting call is issued if and only if
\* a bullet or numbered range was recorded.
C7_CallOrder ==
    flow \in {"hub", "plugWtr", "plugRetry"} =>
        LET c == RunCalls(log)
        IN  /\ Len(c) <= Len(ExpectedCalls)
            /\ \A i \in 1..Len(c) : c[i].op = ExpectedCalls[i]
            /\ \A i \in 1..(Len(c) - 1) : c[i].res = "ok"
            /\ pc = "fn_thrown" => Len(c) >= 1 /\ c[Len(c)].res # "ok"
            /\ pc = "fn_returned" =>
                  /\ Len(c) = Len(ExpectedCalls)
                  /\ c[Len(c)].res = "ok"

\* a run with a numbered range issued all its calls, the list call included
C7_Witness ==
    /\ flow = "hub"
    /\ pc = "fn_returned"
    /\ Len(ReqParse.numberedRanges) > 0
    /\ \E i \in CallsOf(log, "listFormat") : log[i].res = "ok"

\* the errors a PLUG_IT_IN_AT_SECTION response carries when nothing was
\* written to the document
NothingWrittenErrors ==
    {MsgMissing, MsgNoDocument, MsgSignInRequired, MsgSessionExpired}

\* C8: when list formatting or link styling fails after the insert call
\* succeeded, the failure is reported as the PartialInsertion kind, which the
\* caller can tell from a failure in which nothing was written.
C8_PartialInsertionReported ==
    ( /\ flow = "hub"
      /\ pc = "done"
      /\ ~result.ok
      /\ OkInserts(log) # {} ) =>
        /\ Includes(result.error, <<"PartialInsertion">>)
        /\ result.error \notin NothingWrittenErrors

\* C9: plugHighlightIntoDoc and onContextMenuClick never reject: whatever the
\* storage, credential and document-service calls answer or throw, the
\* promise resolves.
C9_NeverRejects ==
    flow \in {"plugRetry", "ctx"} =>
        /\ result.inner # "rejected"
        /\ result.status # "rejected"
        /\ pc = "done" => result.status = "resolved"

\* plugHighlightIntoDoc, awaited by onContextMenuClick, caught an exception
\* thrown before any remote call and both promises resolved
C9_Witness ==
    /\ flow = "plugRetry"
    /\ req.via = "ctx"
    /\ pc = "done"
    /\ log = <<Note("Could not plug in")>>
    /\ result.inner = "resolved"

\* the lines of text that parseSelectionForInsert classifies as kind
ListLines(text, kind) == SelectSeq(SplitLines(text), LAMBDA ln : LineKind(ln) = kind)

\* body[start..end) of a recorded range
RangeText(body, r) == SubSeq(body, r.start + 1, r.end)

\* C10: for every input text, each bullet or numbered range recorded by
\* parseSelectionForInsert delimits, in the returned body text, the stripped
\* content of its own line followed by that line's newline, whatever lines
\* precede it.
C10_RangesDelimitContent ==
    pout # NoOutput =>
        /\ \A k \in 1..Len(pout.bulletRanges) :
              RangeText(pout.textToInsert, pout.bulletRanges[k])
                = LineContent(ListLines(pin.text, "bullet")[k]) \o <<NL>>
        /\ \A k \in 1..Len(pout.numberedRanges) :
              RangeText(pout.textToInsert, pout.numberedRanges[k])
                = LineContent(ListLines(pin.text, "numbered")[k]) \o <<NL>>

\* C11: for every selection text, title and insertion start, the range
\* [sourceStart, sourceEnd) of the link-styling request is start + 1 +
\* quoteLen + length of the label, of the length of the title, and the body
\* text between these offsets, taken relative to start, is the title.
C11_LinkRangeCoversTitle ==
    Linked =>
        /\ pout.sourceStart = pin.start + 1 + pout.quoteLen + Len(SourceLabel)
        /\ pout.sourceEnd = pout.sourceStart + Len(pin.title)
        /\ SubSeq(pout.textToInsert, pout.sourceStart - pin.start + 1,
                  pout.sourceEnd - pin.start) = pin.title

\* the link range was computed for a selection with an empty line and a
\* bullet line, inserted past the beginning of the document
C11_Witness ==
    /\ Linked
    /\ pin.start > 1
    /\ Len(pout.bulletRanges) > 0
    /\ \E i \in 1..Len(SplitLines(pin.text)) : SplitLines(pin.text)[i] = <<>>

\* the lines of the selection given to the formatter
InLines == SplitLines(pin.text)

\* the lines of the quote part of the body text: after the leading newline,
\* before the citation suffix
QuoteLines == SplitLines(SubSeq(pout.textToInsert, 2, 1 + pout.quoteLen))

\* the half-open intervals r and q share no offset
Disjoint(r, q) == r.end <= q.start \/ q.end <= r.start

\* C12: for every input text the ranges of parseSelectionForInsert never
\* overlap, bullet and numbered ranges taken together as half-open intervals;
\* each list is sorted by ascending start; no line contributes a range to
\* both lists.
C12_RangesDisjointAndSorted ==
    pout # NoOutput =>
        LET b == pout.bulletRanges
            n == pout.numberedRanges
        IN  /\ \A i \in 1..Len(b) : b[i].start < b[i].end
            /\ \A i \in 1..Len(n) : n[i].start < n[i].end
            /\ \A i, j \in 1..Len(b) : i < j => b[i].start < b[j].start /\ Disjoint(b[i], b[j])
            /\ \A i, j \in 1..Len(n) : i < j => n[i].start < n[j].start /\ Disjoint(n[i], n[j])
            /\ \A i \in 1..Len(b), j \in 1..Len(n) :
                  Disjoint(b[i], n[j]) /\ b[i].start # n[j].start
            /\ Len(b) = Len(ListLines(pin.text, "bullet"))
            /\ Len(n) = Len(ListLines(pin.text, "numbered"))
            /\ Len(b) + Len(n) <= Len(InLines)

\* the formatter ran on a text with two bullet lines and a numbered line
\* between them
C12_Witness ==
    /\ pout # NoOutput
    /\ Len(pout.bulletRanges) >= 2
    /\ Len(pout.numberedRanges) >= 1
    /\ pout.bulletRanges[1].start < pout.numberedRanges[1].start
    /\ pout.numberedRanges[1].start < pout.bulletRanges[2].start

\* C13: the formatter's output never holds a zero-length line: every line of
\* the quote part of the body text has length at least 1, an empty plain line
\* and a list line left empty by the stripping of its prefix both being
\* replaced by a single space.
C13_NoZeroLengthLine ==
    pout # NoOutput =>
        /\ Len(QuoteLines) = Len(InLines)
        /\ \A i \in 1..Len(QuoteLines) :
              /\ Len(QuoteLines[i]) >= 1
              /\ InLines[i] = <<>> => QuoteLines[i] = <<" ">>
              /\ ( /\ LineKind(InLines[i]) = "bullet"
                   /\ StripPrefix(InLines[i], BulletMatchLen(InLines[i])) = <<>> )
                    => QuoteLines[i] = <<" ">>
              /\ ( /\ LineKind(InLines[i]) = "numbered"
                   /\ StripPrefix(InLines[i], NumberedMatchLen(InLines[i])) = <<>> )
                    => QuoteLines[i] = <<" ">>

\* the formatter ran on a text with an empty plain line and a bullet line
\* that holds nothing but its prefix
C13_Witness ==
    /\ pout # NoOutput
    /\ \E i \in 1..Len(InLines) : InLines[i] = <<>>
    /\ \E i \in 1..Len(InLines) :
          /\ LineKind(InLines[i]) = "bullet"
          /\ StripPrefix(InLines[i], BulletMatchLen(InLines[i])) = <<>>

\* the positions of the headings of content, and of its other elements
HeadingPositions(content) == {i \in 1..Len(content) : content[i].heading}
BodyPositions(content) == {i \in 1..Len(content) : ~content[i].heading}

\* the position at which the k-th heading of content is closed: that of the
\* next heading, or past the last element
ClosedAt(content, k) ==
    LET later == {i \in HeadingPositions(content) :
                    Cardinality({j \in HeadingPositions(content) : j < i}) >= k}
    IN  IF later = {} THEN Len(content) + 1
        ELSE CHOOSE i \in later : \A j \in later : i <= j

\* the end offset of the most recent non-heading element before position p,
\* 1 when there is none
LastBodyEnd(content, p) ==
    LET seen == {i \in BodyPositions(content) : i < p}
    IN  IF seen = {} THEN 1 ELSE content[Max(seen)].end

\* C14: getDocumentSections records, for each heading, the insertion index
\* max(1, lastBodyEnd - 1), lastBodyEnd being the end offset of the most
\* recent non-heading element seen when the heading is closed; for the
\* document with Intro and Methods and body text ending at 50 and 120 the
\* outline is (beginning, 1), (Intro, 49), (Methods, 119), (end, 120).
C14_SectionInsertionIndex ==
    pout # NoOutline =>
        /\ \A k \in 1..Cardinality(HeadingPositions(pin.content)) :
              LET lastBodyEnd == LastBodyEnd(pin.content, ClosedAt(pin.content, k))
              IN  /\ pout[k + 1].kind = "section"
                  /\ pout[k + 1].index
                       = IF lastBodyEnd - 1 >= 1 THEN lastBodyEnd - 1 ELSE 1
        /\ pin.content = ScenarioContent =>
              pout = << [kind |-> "beginning", name |-> "",        index |-> 1],
                        [kind |-> "section",   name |-> "Intro",   index |-> 49],
                        [kind |-> "section",   name |-> "Methods", index |-> 119],
                        [kind |-> "end",       name |-> "",        index |-> 120] >>

\* the outline of the scenario's document was computed
C14_Witness ==
    /\ pout # NoOutline
    /\ pin.content = ScenarioContent

\* C15: for every document element list, the outline's first entry has index
\* 1, its last entry has the largest end offset seen, its length is the number
\* of headings plus 2, and its indices do not decrease along the outline.
C15_OutlineShape ==
    pout # NoOutline =>
        /\ Len(pout) = Cardinality(HeadingPositions(pin.content)) + 2
        /\ pout[1].index = 1
        /\ pout[1].kind = "beginning"
        /\ pout[Len(pout)].kind = "end"
        /\ pout[Len(pout)].index
             = Max({1} \cup {pin.content[i].end : i \in 1..Len(pin.content)})
        /\ \A i \in 1..(Len(pout) - 1) : pout[i].index <= pout[i + 1].index

\* the outline was computed for a document whose last section ends with a
\* body element and whose first heading is followed by another heading
C15_Witness ==
    /\ pout # NoOutline
    /\ Len(pin.content) = 3
    /\ pin.content[1].heading
    /\ pin.content[2].heading
    /\ ~pin.content[3].heading

\* C16: for any capture region with width and height at least 1, any
\* position, any scale factor and any raster of dimensions W x H, the crop
\* rectangle of cropImage has sw >= 1, sh >= 1, 0 <= sx, sx + sw <= W,
\* 0 <= sy and sy + sh <= H.
C16_CropWithinRaster ==
    pout # NoCrop =>
        /\ pout.sw >= 1
        /\ pout.sh >= 1
        /\ 0 <= pout.sx
        /\ pout.sx + pout.sw <= pin.W
        /\ 0 <= pout.sy
        /\ pout.sy + pout.sh <= pin.H

\* a rectangle was computed for a region whose scaled corner lies right of the
\* raster and whose scaled height rounds to 0
C16_Witness ==
    /\ pout # NoCrop
    /\ pin.x * pin.scale.num >= pin.W * pin.scale.den
    /\ 2 * pin.height * pin.scale.num < pin.scale.den
    /\ pin.y < 0

\* the remote calls of ensureResearchSnipsFolder and uploadImageToDrive
StagingOps == {"createFolder", "upload", "permission", "getDirectUrl"}

\* the positions at which uploadImageToDrive has returned a file id and a URL
StagingReturned == {"up_returned", "im_insert"}

\* the most recent event of the attempt is the call op of the staging,
\* answered 401
StagingAnswered401(op) ==
    /\ Len(log) > 0
    /\ log[Len(log)].k = "call"
    /\ log[Len(log)].op = op
    /\ log[Len(log)].res = "401"

\* C17: every step of uploadImageToDrive and ensureResearchSnipsFolder
\* (container creation, upload, permission setting, direct-URL lookup) that
\* receives status 401 makes the whole staging call fail with SESSION_EXPIRED;
\* no such step lets the call return a URL.
C17_Every401FailsStaging ==
    \A op \in StagingOps :
        StagingAnswered401(op) =>
            /\ pc \notin StagingReturned
            /\ IsAuthError(err)

\* the part of C17 that the code keeps: a 401 at the container creation, the
\* upload or the permission setting fails the staging call
C17_Except_Lookup ==
    \A op \in StagingOps \ {"getDirectUrl"} :
        StagingAnswered401(op) =>
            /\ pc \notin StagingReturned
            /\ IsAuthError(err)

\* this step issues the container-creation call
CreatesFolder ==
    /\ Len(log') = Len(log) + 1
    /\ log'[Len(log')].k = "call"
    /\ log'[Len(log')].op = "createFolder"

\* C18: across any sequence of image stagings the container-creation call is
\* issued only while no container id is stored; once a container was created
\* and its id stored, every later ensureResearchSnipsFolder returns the stored
\* id and issues no creation call; a failed creation stores nothing.
C18_FolderCreatedOnce ==
    [][ /\ CreatesFolder =>
              /\ researchFolder = NoFolder
              /\ log'[Len(log')].res # "ok" => researchFolder' = NoFolder
              /\ log'[Len(log')].res = "ok" => researchFolder' # NoFolder
        /\ researchFolder # NoFolder =>
              /\ researchFolder' = researchFolder
              /\ pc = "dr_folder" => log' = log /\ pc' = "dr_upload"
      ]_vars

\* a later staging went past ensureResearchSnipsFolder with the stored id and
\* without a creation call
C18_Witness ==
    /\ researchFolder # NoFolder
    /\ pc = "dr_upload"
    /\ flow = "snipWtr"
    /\ CallsOf(log, "createFolder") = {}

\* C19: a section outline is never used after the document changed: between
\* two placement insertions into the same document, if the text of the first
\* one reached the document, the second uses an insertion index taken from an
\* outline fetched after that insertion, also when the first attempt was
\* reported as failed and the user picks a section again.
C19_OutlineFetchedAfterInsertion ==
    (popup.step = "inserting" /\ flow = "hub" /\ docId = popup.doc) => ~popup.edited

\* the part of C19 that the code keeps: after an insertion that was reported
\* as a success the picker holds no outline
C19_OutlineDroppedOnSuccess ==
    (flow = "hub" /\ pc = "done" /\ result.ok /\ popup.step # "inserting")
        => popup = NoPopup

\* the variables of the attempt of handleSnipBounds
attemptVars == <<flow, pc, phase, tok, docId, req, err, log, result, snap>>

\* this step is the service worker handling SNIP_CANCEL
HandlesSnipCancel ==
    /\ overlay.msgs # <<>>
    /\ Head(overlay.msgs) = "SNIP_CANCEL"
    /\ overlay'.msgs = Tail(overlay.msgs)

\* C20: a user cancel (Escape) while the capture overlay is shown removes the
\* overlay and leads to no capture, upload or document call; a SNIP_CANCEL
\* that arrives after SNIP_BOUNDS has started handleSnipBounds does not stop
\* that attempt, which still runs to success or failure.
C20_CancelBeforeAndAfterBounds ==
    /\ [](overlay.cancelled =>
            /\ ~overlay.dom
            /\ \A i \in 1..Len(overlay.msgs) : overlay.msgs[i] # "SNIP_BOUNDS"
            /\ flow = "idle"
            /\ log = <<>>)
    /\ [][HandlesSnipCancel => UNCHANGED attemptVars]_vars
    /\ ((overlay.late /\ ~Quiet) ~> pc = "done")

\* SNIP_CANCEL was handled while handleSnipBounds was running, and the
\* attempt went on to insert the image
C20_Witness ==
    /\ overlay.late
    /\ pc = "done"
    /\ result.ok
    /\ \E i \in CallsOf(log, "insertImage") : log[i].res = "ok"

\* C21: a drawn region whose width or height is below 5 CSS pixels never
\* reaches the pipeline: on mouseup no SNIP_BOUNDS message is sent, no error
\* or cancel message is sent, no notification is shown, and the overlay stays
\* in place so the user can draw again.
C21_SmallRegionDiscarded ==
    [][ ( /\ overlay.dom
          /\ overlay.isDrawing
          /\ overlay.currentW < MinSide \/ overlay.currentH < MinSide
          /\ ~overlay'.isDrawing
          /\ overlay'.esc = overlay.esc )
        => /\ overlay'.msgs = overlay.msgs
           /\ overlay'.dom
           /\ log' = log
           /\ UNCHANGED attemptVars
      ]_vars

\* a mouseup dropped a rectangle 4 wide; the overlay is still shown and
\* nothing is on its way to the service worker
C21_Witness ==
    /\ overlay.discarded
    /\ overlay.dom
    /\ overlay.currentW = MinSide - 1
    /\ overlay.currentH = MinSide
    /\ overlay.active
    /\ overlay.msgs = <<>>

\* the characters of body at the document indices from, from + 1, ... that
\* text would occupy
TextAt(body, from, text) == SubSeq(body, from, from + Len(text) - 1)

\* C22: after an implicit append by insertHighlightToDoc, with no other
\* writer editing the document, the start offset computed as the document
\* end index fetched after the insert minus the length of the body text is
\* the document-absolute offset at which the first character of the body
\* text landed.
C22_InsertStartIsLandingOffset ==
    pout # NoAppend => TextAt(pout.body, pout.insertStart, pout.fullText) = pout.fullText

\* what the code computes: the offset after the one at which the body text
\* landed
C22_InsertStartIsOnePast ==
    pout # NoAppend =>
        /\ TextAt(pout.body, pout.insertStart - 1, pout.fullText) = pout.fullText
        /\ pout.insertStart - 1 = Len(pin.body)

RECURSIVE LineOffset(_, _)
\* the offset, in the body text, of the j-th line of the quote
LineOffset(lines, j) ==
    IF j = 1 THEN 1 ELSE LineOffset(lines, j - 1) + Len(lines[j - 1]) + 1

\* the paragraph of the j-th line of the quote, inserted at pin.start, shares
\* an index with the request range
ParagraphInRange(range, j) ==
    /\ range.startIndex < pin.start + LineOffset(QuoteLines, j) + Len(QuoteLines[j]) + 1
    /\ pin.start + LineOffset(QuoteLines, j) < range.endIndex

\* the lines of the selection whose paragraphs the list request built from
\* ranges covers
LinesStyled(ranges) ==
    IF Len(ranges) = 0 THEN {}
    ELSE {j \in 1..Len(QuoteLines) :
            ParagraphInRange(ListRequestRange(pin.start, ranges), j)}

\* C23: the paragraph range sent in the list-formatting call for bullets
\* covers only lines classified as bullet lines, and the range sent for
\* numbering only lines classified as numbered lines: no plain line and no
\* line of the other list kind between the first and the last list line
\* receives that list style.
C23_ListRangeCoversOnlyListLines ==
    Linked =>
        /\ \A j \in LinesStyled(pout.bulletRanges) : LineKind(InLines[j]) = "bullet"
        /\ \A j \in LinesStyled(pout.numberedRanges) : LineKind(InLines[j]) = "numbered"

\* what the code keeps, for a selection without an empty line (whose offsets
\* C10 is about): each request covers the lines from the first to the last
\* line of its kind, all of them
C23_ListRangeSpansFirstToLast ==
    (Linked /\ \A j \in 1..Len(InLines) : InLines[j] # <<>>) =>
        \A kind \in {"bullet", "numbered"} :
            LET ranges == IF kind = "bullet" THEN pout.bulletRanges
                          ELSE pout.numberedRanges
                mine   == {j \in 1..Len(InLines) : LineKind(InLines[j]) = kind}
            IN  LinesStyled(ranges)
                  = {j \in 1..Len(InLines) : \E a, b \in mine : a <= j /\ j <= b}

\* a plain line lies between two bullet lines, none of them empty, and the
\* bullet request covers it
C23_PlainLineStyled ==
    /\ Linked
    /\ \A j \in 1..Len(InLines) : InLines[j] # <<>>
    /\ \E j \in LinesStyled(pout.bulletRanges) : LineKind(InLines[j]) = "plain"

\* the position of the k-th heading of content
HeadingAt(content, k) ==
    CHOOSE i \in HeadingPositions(content) :
        Cardinality({j \in HeadingPositions(content) : j < i}) = k - 1

\* the 'End of section' index of the k-th heading lies in its section: from
\* the end of the heading element up to, and not including, the start of the
\* next heading (the end of the body for the last heading)
InOwnSection(content, outline, k) ==
    /\ content[HeadingAt(content, k)].end <= outline[k + 1].index
    /\ outline[k + 1].index < content[ClosedAt(content, k) - 1].end

\* C24: for every heading of the document, the 'End of section' index
\* returned by getDocumentSections lies inside that heading's own section: it
\* is at least the end offset of the heading element and less than the start
\* of the next heading, also for a section with no body element between its
\* heading and the next heading.
C24_IndexInsideOwnSection ==
    pout # NoOutline =>
        \A k \in 1..Cardinality(HeadingPositions(pin.content)) :
            InOwnSection(pin.content, pout, k)

\* what the code keeps: the index lies inside the section when the section
\* has a body element
C24_IndexInsideSectionWithBody ==
    pout # NoOutline =>
        \A k \in 1..Cardinality(HeadingPositions(pin.content)) :
            ClosedAt(pin.content, k) > HeadingAt(pin.content, k) + 1
                => InOwnSection(pin.content, pout, k)

\* C25: under any interleaving of DOCS_SET_SELECTED, DOCS_CREATE and
\* AUTH_DISCONNECT messages between a DOCS_GET_SECTIONS request and the
\* following PLUG_IT_IN_AT_SECTION request, the document that receives the
\* insertion is the document whose outline produced the insertIndex carried
\* by the request.
C25_InsertionIntoOutlineDocument ==
    ( /\ popup.step = "inserting"
      /\ flow = "hub"
      /\ \E i \in CallsOf(log, "insertText") : log[i].res = "ok" )
        => docId = popup.doc

\* what the code keeps: the insertion goes to the document that is selected
\* when PLUG_IT_IN_AT_SECTION is handled
C25_InsertionIntoDocumentReadByHandler ==
    (flow = "hub" /\ CallsOf(log, "insertText") # {})
        => /\ log[1].op = "getSelectedDocumentId"
           /\ docId = log[1].arg
           /\ docId # NoDoc

\* the positions of log l at which tryPasteImageAtCursorInDocTab triggered
\* the paste of the image in the document tab: it answered true, or a step
\* after the first TRIGGER_PASTE failed and it answered false
PastesTriggered(l) ==
    {i \in EventsOf(l, "tab") : l[i].op = "pasteImageAtCursor"
                                /\ l[i].res \in {"ok", "partial"}}

\* C26: in the paste-at-cursor variant of handleSnipBounds, one attempt
\* places the screenshot in the document through at most one mechanism: the
\* upload-and-insert path through the Drive and Docs services is taken only
\* if no paste of the image was triggered in the open document tab by
\* tryPasteImageAtCursorInDocTab.
C26_OneMechanism ==
    (flow = "snipWtr" /\ PastesTriggered(log) # {}) => EventsOf(log, "call") = {}

\* what the code keeps: the upload-and-insert path is not taken when
\* tryPasteImageAtCursorInDocTab answered true
C26_NoUploadAfterTrue ==
    ( /\ flow = "snipWtr"
      /\ \E i \in EventsOf(log, "tab") :
            log[i].op = "pasteImageAtCursor" /\ log[i].res = "ok" )
        => EventsOf(log, "call") = {}

\* the positions of log l that hold the step op of the tab
TabOps(l, op) == {i \in EventsOf(l, "tab") : l[i].op = op}

\* position i of log l comes after a step of the set before, and the latest
\* of them ended well
AfterSuccessful(l, i, before) ==
    LET earlier == {j \in before : j < i}
    IN  /\ earlier # {}
        /\ l[Max(earlier)].res \in {"ok", ""}

ListRequests == CallsOf(log, "list")

\* C28: fetchDocsList retries once: on a 401 answer it invalidates the cached
\* token and repeats the list request a single time with a fresh token, so
\* one call issues at most two list requests and terminates even when every
\* request answers 401 and a silent token is always available.
C28_AtMostTwoListRequests ==
    flow = "docsList" => Cardinality(ListRequests) <= 2

\* what the code keeps: each list request after the first follows a 401
\* answer, the removal of the token used and a silent token, and it is sent
\* with that token; the call ends only on an answer other than 401 or when
\* no silent token is available
C28_RepeatsWhile401AndToken ==
    flow = "docsList" =>
        /\ \A i \in ListRequests :
              (\E j \in ListRequests : j < i) =>
                  /\ i > 3
                  /\ log[i - 3].op = "list" /\ log[i - 3].res = "401"
                  /\ log[i - 2].op = "removeCachedAuthToken"
                  /\ log[i - 2].arg = log[i - 3].arg
                  /\ log[i - 1].op = "getAuthTokenSilent"
                  /\ log[i - 1].arg = log[i].arg
        /\ (pc = "done" /\ ListRequests # {}) =>
              \/ log[Max(ListRequests)].res # "401"
              \/ log[Len(log)].op = "getAuthTokenSilent" /\ log[Len(log)].arg = NoToken

\* a third list request was sent after two 401 answers
C28_ThirdRequest ==
    /\ flow = "docsList"
    /\ Cardinality(ListRequests) = 3
    /\ \A i \in ListRequests : i < Len(log) => log[i].res = "401"

\* withTokenRetry ended the handler in flight with 'Session expired'
EndedSessionExpired ==
    /\ flow \in WtrFlows
    /\ pc \in {"wtr_thrown", "done"}
    /\ err = MsgSessionExpired

\* the hub read the selected document for a placement or section request and
\* found none
RequestWithoutDocument ==
    /\ flow \in {"hub", "sections"}
    /\ \E i \in EventsOf(log, "store") :
          log[i].op = "getSelectedDocumentId" /\ log[i].arg = NoDoc

\* C29: after withTokenRetry ends with 'Session expired', both the stored
\* credential and the selected document are cleared, so every later placement
\* or section request fails with 'No document selected' until a document is
\* selected again, even after the user has signed in again.
C29_SessionExpiredClearsDocument ==
    /\ [](EndedSessionExpired => storedToken = NoToken /\ selectedDoc = NoDoc)
    /\ [](RequestWithoutDocument =>
             /\ pc = "done"
             /\ ~result.ok
             /\ result.error = MsgNoDocument
             /\ EventsOf(log, "call") = {})
    /\ [][(selectedDoc = NoDoc /\ selectedDoc' # NoDoc) =>
             \/ Quiet /\ pc' = "idle" /\ storedToken' = storedToken
             \/ flow = "create" /\ pc = "wtr_returned"]_vars

\* the picker still holds the outline of a document, the user is signed in
\* again, no document is selected and the placement was answered 'No
\* document selected'
C29_Witness ==
    /\ popup.step = "inserting"
    /\ popup.doc # NoDoc
    /\ storedToken # NoToken
    /\ selectedDoc = NoDoc
    /\ RequestWithoutDocument
    /\ result.error = MsgNoDocument

\* a handler ended with 'Session expired'
C29_SessionExpiredReached ==
    /\ EndedSessionExpired
    /\ flow = "hub"
    /\ pc = "done"
    /\ snap.doc # NoDoc

\* the selection given to the formatter consists of whitespace only
OnlyWhitespace(text) == \A i \in 1..Len(text) : text[i] \in WhiteSpace

\* the quote part of the body text: after the leading newline, before the
\* citation suffix
QuoteText == SubSeq(pout.textToInsert, 2, 1 + pout.quoteLen)

\* C30: if the original selected text consists only of whitespace (empty,
\* spaces, or whitespace-only lines), the quote part of the body text produced
\* by parseSelectionForInsert is normalized to a single space, and the text
\* sent in the insert request is never empty.
C30_WhitespaceQuoteIsSingleSpace ==
    pout # NoOutput =>
        /\ OnlyWhitespace(pin.text) => QuoteText = <<" ">>
        /\ pout.textToInsert # <<>>

\* what the code keeps: the text sent is never empty, no line of the quote
\* part is empty, the empty selection gives a single space, and a selection
\* of whitespace only gives a quote part of whitespace only with as many
\* lines as the selection
C30_EmptyLinesBecomeSpace ==
    pout # NoOutput =>
        /\ pout.textToInsert # <<>>
        /\ pout.quoteLen >= 1
        /\ \A j \in 1..Len(QuoteLines) : QuoteLines[j] # <<>>
        /\ pin.text = <<>> => QuoteText = <<" ">>
        /\ OnlyWhitespace(pin.text) =>
              /\ OnlyWhitespace(QuoteText)
              /\ Len(QuoteLines) = Len(InLines)
              /\ \A j \in 1..Len(InLines) :
                    QuoteLines[j] = IF InLines[j] = <<>> THEN <<" ">> ELSE InLines[j]

\* a selection of two spaces was formatted, and its quote part is two spaces
C30_TwoSpacesKept ==
    /\ pout # NoOutput
    /\ pin.text = <<" ", " ">>
    /\ QuoteText = <<" ", " ">>

=============================================================================
